---------------------------- MODULE Spec2Model ----------------------------
(* A model of the Korrektly TypeScript SDK and of its VitePress indexing   *)
(* CLI: the batch uploader (uploadChunks), the de-duplication step of      *)
(* main, the markdown / OpenAPI chunk extraction and the API client's      *)
(* request method.                                                         *)
(*                                                                         *)
(* Strings are sequences of one-character strings, so that the text        *)
(* conversions (cleanText, generateTrackingId) are computed character by   *)
(* character. Weights are counted in tenths (1.2 is 12).                   *)
EXTENDS Integers, Sequences, FiniteSets, TLC

VARIABLES
    \* ---- uploadChunks (packages/vitepress/src/markdown.ts:348-423)
    chunks,       \* the records handed to uploadChunks
    batchSize,    \* parameter batchSize
    maxRetries,   \* parameter maxRetries
    upsert,       \* parameter upsert
    i,            \* the for loop's index
    batch,        \* chunks.slice(i, i + batchSize)
    retries,      \* failed attempts of the current batch
    success,      \* the current batch was uploaded
    pc,           \* position of uploadChunks
    inFlight,     \* createChunks calls awaiting their response
    sends,        \* every createChunks call that returned, in call order
    delays,       \* every backoff delay, in order
    \* ---- de-duplication in main (markdown.ts:579-588)
    allChunks,    \* the assembled records
    uniqueMap,    \* the Map being built: its entries in insertion order
    uniqueChunks, \* Array.from(map.values())
    dpc,          \* position of the de-duplication
    \* ---- extraction (markdown.ts:54-237, openapi.ts:65-190)
    html,         \* the top-level elements handed to splitIntoSections
    doc,          \* the markdown document handed to extractChunksFromMarkdown
    apiSpec,      \* the dereferenced OpenAPI specification
    sections,     \* splitIntoSections(finalHtml)
    outChunks,    \* the records the extractor returned
    epc,          \* position of the extraction
    \* ---- Korrektly (packages/sdk/src/index.ts:31-286)
    config,       \* the configuration the client was constructed with
    call,         \* the operation called, its dataset id and its request
    fetches,      \* every fetch call made, in order
    response,     \* what fetch resolved to
    errorMessage, \* the message being assembled for a non-2xx response
    outcome,      \* how the call ended
    cpc,          \* position of request
    \* ---- main (packages/vitepress/src/markdown.ts:467-664)
    env,          \* process.env: the API token, the dataset id
    options,      \* program.opts(): the command line flags given
    world,        \* what the file system and the network hold
    network,      \* the fetches main's extraction made, in order
    validChunks,  \* the records left after the URL validation
    exitCode,     \* the code process.exit was called with
    mpc,          \* position of main
    \* ---- a function of utils.ts called on its own
    args,         \* its arguments
    result,       \* what it returned
    fpc           \* before or after the call

uploadVars  == <<chunks, batchSize, maxRetries, upsert, i, batch, retries,
                 success, pc, inFlight, sends, delays>>
dedupVars   == <<allChunks, uniqueMap, uniqueChunks, dpc>>
extractVars == <<html, doc, apiSpec, sections, outChunks, epc>>
clientVars  == <<config, call, fetches, response, errorMessage, outcome, cpc>>
mainVars    == <<env, options, world, network, validChunks, exitCode, mpc>>
fnVars      == <<args, result, fpc>>
vars        == <<uploadVars, dedupVars, extractVars, clientVars, mainVars,
                 fnVars>>

\* what the steps of one component leave alone
notUpload  == <<dedupVars, extractVars, clientVars, mainVars, fnVars>>
notDedup   == <<uploadVars, extractVars, clientVars, mainVars, fnVars>>
notExtract == <<uploadVars, dedupVars, clientVars, mainVars, fnVars>>
notClient  == <<uploadVars, dedupVars, extractVars, mainVars, fnVars>>

----------------------------------------------------------------------------
(* Helpers *)

Min(a, b) == IF a <= b THEN a ELSE b
Max(a, b) == IF a >= b THEN a ELSE b

\* Array.prototype.slice(start, end): negative indexes count from the end,
\* both are clamped to the array; the result is elements start..end-1
\* (0-based).
Slice(arr, start, end) ==
    LET len == Len(arr)
        s   == IF start < 0 THEN Max(len + start, 0) ELSE Min(start, len)
        e   == IF end < 0 THEN Max(len + end, 0) ELSE Min(end, len)
    IN  IF e <= s THEN << >> ELSE SubSeq(arr, s + 1, e)

RECURSIVE Concat(_)
Concat(ss) == IF ss = << >> THEN << >> ELSE Head(ss) \o Concat(Tail(ss))

\* the elements of s that satisfy Test, in order
SelectIdx(s, Test(_)) ==
    LET F[k \in 0..Len(s)] ==
            IF k = 0 THEN << >>
            ELSE IF Test(k) THEN Append(F[k - 1], k) ELSE F[k - 1]
    IN  F[Len(s)]

----------------------------------------------------------------------------
(* Bounds of the model *)

MaxChunks     == 3
MaxBatchSize  == 2
MaxMaxRetries == 5
\* the sends explored of a run whose loop index does not advance
MaxStalledSends == 3

(* Program constants *)
BackoffBaseMs == 1000
BackoffCapMs  == 10000

----------------------------------------------------------------------------
(* uploadChunks *)

\* chunks.slice(i, i + batchSize)
BatchAtOverlap(cs, idx, size) == Slice(cs, idx, idx + size + 1)
BatchAt(cs, idx, size) == Slice(cs, idx, idx + size)

\* the while loop's condition
WhileCondOneMore(r, m, ok) == r <= m + 1 /\ ~ok
WhileCondGiveUpEarly(r, m, ok) == r < m /\ ~ok
WhileCondIgnoreSuccess(r, m, ok) == r <= m
WhileCond(r, m, ok) == r <= m /\ ~ok

\* Math.min(1000 * 2 ** (retries - 1), 10000)
WaitTimeUncapped(r) == BackoffBaseMs * 2 ^ (r - 1)
WaitTime(r) == Min(BackoffBaseMs * 2 ^ (r - 1), BackoffCapMs)

InitUpload ==
    /\ \E n \in 0..MaxChunks : chunks = [k \in 1..n |-> k]
    /\ batchSize \in 1..MaxBatchSize
    /\ maxRetries \in 0..MaxMaxRetries
    /\ upsert = TRUE                     \* the parameter's default
    /\ i = 0
    /\ batch = << >>
    /\ retries = 0
    /\ success = FALSE
    /\ pc = "for"
    /\ inFlight = 0
    /\ sends = << >>
    /\ delays = << >>

\* for (let i = 0; i < chunks.length; ...): slice the batch, reset the
\* retry state
ForBody ==
    /\ pc = "for"
    /\ i < Len(chunks)
    \* (a run whose index does not advance is followed for MaxStalledSends
    \* sends)
    /\ batchSize > 0 \/ Len(sends) < MaxStalledSends
    /\ batch' = BatchAt(chunks, i, batchSize)
    /\ retries' = 0
    /\ success' = FALSE
    /\ pc' = "while"
    /\ UNCHANGED <<chunks, batchSize, maxRetries, upsert, i, inFlight, sends,
                   delays>>
    /\ UNCHANGED notUpload

\* the for loop ends: "Upload complete"
ForExit ==
    /\ pc = "for"
    /\ ~(i < Len(chunks))
    /\ pc' = "done"
    /\ UNCHANGED <<chunks, batchSize, maxRetries, upsert, i, batch, retries,
                   success, inFlight, sends, delays>>
    /\ UNCHANGED notUpload

\* while (retries <= maxRetries && !success): call client.createChunks
SendCall ==
    /\ pc = "while"
    /\ WhileCond(retries, maxRetries, success)
    /\ inFlight' = inFlight + 1
    /\ pc' = "await_send"
    /\ UNCHANGED <<chunks, batchSize, maxRetries, upsert, i, batch, retries,
                   success, sends, delays>>
    /\ UNCHANGED notUpload

\* createChunks resolved
SendOk ==
    /\ pc = "await_send"
    /\ inFlight' = inFlight - 1
    /\ sends' = Append(sends, [start |-> i, batch |-> batch, ok |-> TRUE,
                                refresh_on_duplicate |-> upsert])
    /\ success' = TRUE
    /\ pc' = "while"
    /\ UNCHANGED <<chunks, batchSize, maxRetries, upsert, i, batch, retries,
                   delays>>
    /\ UNCHANGED notUpload

\* createChunks rejected: count the failure, back off if a retry follows
SendFail ==
    /\ pc = "await_send"
    /\ inFlight' = inFlight - 1
    /\ sends' = Append(sends, [start |-> i, batch |-> batch, ok |-> FALSE,
                                refresh_on_duplicate |-> upsert])
    /\ retries' = retries + 1
    /\ pc' = IF retries' <= maxRetries THEN "delay" ELSE "while"
    /\ UNCHANGED <<chunks, batchSize, maxRetries, upsert, i, batch, success,
                   delays>>
    /\ UNCHANGED notUpload

\* await new Promise(resolve => setTimeout(resolve, waitTime))
DelayNeverResolves ==
    /\ pc = "delay"
    /\ UNCHANGED uploadVars
    /\ UNCHANGED notUpload
Delay ==
    /\ pc = "delay"
    /\ delays' = Append(delays, [start |-> i, ms |-> WaitTime(retries)])
    /\ pc' = "while"
    /\ UNCHANGED <<chunks, batchSize, maxRetries, upsert, i, batch, retries,
                   success, inFlight, sends>>
    /\ UNCHANGED notUpload

\* the while loop ends (uploaded, or skipped after the last retry);
\* i += batchSize
WhileExit ==
    /\ pc = "while"
    /\ ~WhileCond(retries, maxRetries, success)
    /\ i' = i + batchSize
    /\ pc' = "for"
    /\ UNCHANGED <<chunks, batchSize, maxRetries, upsert, batch, retries,
                   success, inFlight, sends, delays>>
    /\ UNCHANGED notUpload

----------------------------------------------------------------------------
(* De-duplication by tracking id (main) *)

MaxAllChunks == 4

\* the tracking ids the assembled records carry
DedupIds == { <<"a">>, <<"b">>, <<"a", "-", "b">> }

\* Map.prototype.set: an existing key keeps its place and takes the new
\* value, a new key is appended
MapSetKeepFirst(m, key, value) ==
    IF \E k \in 1..Len(m) : m[k].key = key
    THEN m
    ELSE Append(m, [key |-> key, value |-> value])
MapSet(m, key, value) ==
    IF \E k \in 1..Len(m) : m[k].key = key
    THEN [k \in 1..Len(m) |->
            IF m[k].key = key THEN [key |-> key, value |-> value] ELSE m[k]]
    ELSE Append(m, [key |-> key, value |-> value])

\* new Map(entries): the entries are set one after the other
RECURSIVE NewMap(_, _)
NewMap(m, entries) ==
    IF entries = << >> THEN m
    ELSE NewMap(MapSet(m, Head(entries)[1], Head(entries)[2]), Tail(entries))

\* Array.from(map.values())
MapValues(m) == [k \in 1..Len(m) |-> m[k].value]

InitDedup ==
    /\ \E n \in 0..MaxAllChunks : \E ids \in [1..n -> DedupIds] :
           allChunks = [k \in 1..n |-> [tracking_id |-> ids[k], pos |-> k]]
    /\ uniqueMap = << >>
    /\ uniqueChunks = << >>
    /\ dpc = "assembled"

\* new Map(allChunks.map((chunk) => [chunk.tracking_id, chunk]))
BuildMap ==
    /\ dpc = "assembled"
    /\ uniqueMap' = NewMap(<< >>, [k \in 1..Len(allChunks) |->
                                     <<allChunks[k].tracking_id, allChunks[k]>>])
    /\ dpc' = "mapped"
    /\ UNCHANGED <<allChunks, uniqueChunks>>
    /\ UNCHANGED notDedup

\* const uniqueChunks = Array.from(map.values())
TakeValues ==
    /\ dpc = "mapped"
    /\ uniqueChunks' = MapValues(uniqueMap)
    /\ dpc' = "deduplicated"
    /\ UNCHANGED <<allChunks, uniqueMap>>
    /\ UNCHANGED notDedup

----------------------------------------------------------------------------
(* Text helpers (packages/vitepress/src/utils.ts) *)

\* the characters of the model: lower and upper case letters, white space,
\* the characters a tracking id keeps ("-", "_", "/"), and characters it
\* strips ("!", ".")
Lower      == { "a", "b", "c", "d", "e", "g", "h", "i", "l", "m", "n", "o",
                "p", "r", "s", "t", "u", "x" }
Upper      == { "A", "E", "G", "S", "T" }
WhiteSpace == { " ", "\n", "\t" }

IsSpace(c) == c \in WhiteSpace

\* String.prototype.toLowerCase, per character
ToLowerChar(c) ==
    CASE c = "A" -> "a"
      [] c = "E" -> "e"
      [] c = "G" -> "g"
      [] c = "S" -> "s"
      [] c = "T" -> "t"
      [] OTHER   -> c

\* Array.prototype.join(sep) on strings
RECURSIVE Join(_, _)
Join(parts, sep) ==
    IF parts = << >> THEN << >>
    ELSE IF Len(parts) = 1 THEN Head(parts)
    ELSE Head(parts) \o sep \o Join(Tail(parts), sep)

\* replace(/\s+/g, rep): every maximal run of white space becomes rep
RECURSIVE ReplaceSpaceRuns(_, _)
ReplaceSpaceRuns(str, rep) ==
    IF str = << >> THEN << >>
    ELSE IF IsSpace(Head(str))
         THEN IF Len(str) > 1 /\ IsSpace(str[2])
              THEN ReplaceSpaceRuns(Tail(str), rep)
              ELSE rep \o ReplaceSpaceRuns(Tail(str), rep)
         ELSE <<Head(str)>> \o ReplaceSpaceRuns(Tail(str), rep)

\* String.prototype.trim
RECURSIVE TrimStart(_)
TrimStart(str) ==
    IF str # << >> /\ IsSpace(Head(str)) THEN TrimStart(Tail(str)) ELSE str
RECURSIVE TrimEnd(_)
TrimEnd(str) ==
    IF str # << >> /\ IsSpace(str[Len(str)])
    THEN TrimEnd(SubSeq(str, 1, Len(str) - 1))
    ELSE str
Trim(str) == TrimEnd(TrimStart(str))

\* text.replace(/\s+/g, " ").replace(/\n+/g, " ").trim(): after the first
\* replacement no newline is left, so the second changes nothing
cleanText(text) == Trim(ReplaceSpaceRuns(text, <<" ">>))

\* the characters /[^a-zA-Z0-9-_/]/g leaves in place
IdCharKept(c) == c \in Lower \cup Upper \cup { "-", "_", "/" }

\* replace(/[^a-zA-Z0-9-_/]/g, "")
RECURSIVE StripIdChars(_)
StripIdChars(str) ==
    IF str = << >> THEN << >>
    ELSE IF IdCharKept(Head(str))
         THEN <<Head(str)>> \o StripIdChars(Tail(str))
         ELSE StripIdChars(Tail(str))

ToLowerCase(str) == [k \in 1..Len(str) |-> ToLowerChar(str[k])]

\* parts.filter(Boolean): the non-empty strings
RECURSIVE FilterTruthy(_)
FilterTruthy(parts) ==
    IF parts = << >> THEN << >>
    ELSE IF Head(parts) # << >>
         THEN <<Head(parts)>> \o FilterTruthy(Tail(parts))
         ELSE FilterTruthy(Tail(parts))

\* parts.filter(Boolean).join("-").replace(/\s+/g, "-")
\*      .replace(/[^a-zA-Z0-9-_/]/g, "").toLowerCase()
generateTrackingIdTruncated(parts) ==
    LET id == ToLowerCase(StripIdChars(
                  ReplaceSpaceRuns(Join(FilterTruthy(parts), <<"-">>), <<"-">>)))
    IN  SubSeq(id, 1, Min(Len(id), 3))
generateTrackingId(parts) ==
    ToLowerCase(StripIdChars(
        ReplaceSpaceRuns(Join(FilterTruthy(parts), <<"-">>), <<"-">>)))

----------------------------------------------------------------------------
(* splitIntoSections (packages/vitepress/src/markdown.ts:54-100) *)

MaxElems == 4

\* the top-level elements of the model: headings with an empty, a blank and
\* a plain text, an element /^H[1-6]$/i does not match ("H7"), paragraphs
Elements ==
    [tag : { "H1" }, text : { << >>, <<" ">>, <<"a">> }]
    \cup [tag : { "H6" }, text : { <<"b">> }]
    \cup [tag : { "H7" }, text : { <<"a">> }]
    \cup [tag : { "P" }, text : { <<"a">>, <<"a", "\n", " ", "b">> }]

\* headingRegex.test(element.tagName)
IsHeading(tag) == tag \in { "H1", "H2", "H3", "H4", "H5", "H6" }

\* parseInt(element.tagName.substring(1), 10)
HeadingLevel(tag) ==
    CASE tag = "H1" -> 1 [] tag = "H2" -> 2 [] tag = "H3" -> 3
      [] tag = "H4" -> 4 [] tag = "H5" -> 5 [] tag = "H6" -> 6

\* if (currentHeading || currentBody) sections.push({...})
Flush(st) ==
    IF st.currentHeading # << >> \/ st.currentBody # << >>
    THEN Append(st.sections, [heading |-> st.currentHeading,
                              body    |-> cleanText(st.currentBody),
                              level   |-> st.currentLevel])
    ELSE st.sections

\* one iteration of the loop over body.children
SplitStepKeepBody(st, element) ==
    IF IsHeading(element.tag)
    THEN [sections       |-> Flush(st),
          currentHeading |-> cleanText(element.text),
          currentBody    |-> st.currentBody,
          currentLevel   |-> HeadingLevel(element.tag)]
    ELSE [st EXCEPT !.currentBody =
            @ \o (IF @ # << >> THEN <<"\n">> ELSE << >>) \o element.text]
SplitStep(st, element) ==
    IF IsHeading(element.tag)
    THEN [sections       |-> Flush(st),
          currentHeading |-> cleanText(element.text),
          currentBody    |-> << >>,
          currentLevel   |-> HeadingLevel(element.tag)]
    ELSE [st EXCEPT !.currentBody =
            @ \o (IF @ # << >> THEN <<"\n">> ELSE << >>) \o element.text]

RECURSIVE SplitLoop(_, _)
SplitLoop(st, elements) ==
    IF elements = << >> THEN st
    ELSE SplitLoop(SplitStep(st, Head(elements)), Tail(elements))

\* sections.filter((s) => s.heading)
RECURSIVE KeepHeaded(_)
KeepHeaded(secs) ==
    IF secs = << >> THEN << >>
    ELSE IF Head(secs).heading # << >>
         THEN <<Head(secs)>> \o KeepHeaded(Tail(secs))
         ELSE KeepHeaded(Tail(secs))

splitIntoSections(elements) ==
    KeepHeaded(Flush(SplitLoop([sections       |-> << >>,
                                currentHeading |-> << >>,
                                currentBody    |-> << >>,
                                currentLevel   |-> 0], elements)))

----------------------------------------------------------------------------
(* extractChunksFromMarkdown (packages/vitepress/src/markdown.ts:105-237) *)

MaxBodyElems == 2

\* an optional value: undefined, or the value
Undefined == << >>
Some(v)   == <<v>>
IsDefined(o) == o # << >>
ValueOf(o)   == o[1]

\* a ?? b
Coalesce(o, default) == IF IsDefined(o) THEN ValueOf(o) ELSE default

\* an optional string used as a condition: defined and not empty
Truthy(o) == IsDefined(o) /\ ValueOf(o) # << >>

\* weights in tenths: 1.2 for a level-1 heading, 1.0 otherwise
H1Weight      == 12
DefaultWeight == 10

EndsWith(str, suffix) ==
    /\ Len(str) >= Len(suffix)
    /\ SubSeq(str, Len(str) - Len(suffix) + 1, Len(str)) = suffix

\* replace(/\.mdx?$/, "")
StripMdExt(path) ==
    IF EndsWith(path, <<".", "m", "d", "x">>)
    THEN SubSeq(path, 1, Len(path) - 4)
    ELSE IF EndsWith(path, <<".", "m", "d">>)
         THEN SubSeq(path, 1, Len(path) - 3)
         ELSE path

\* String.prototype.split("/")
RECURSIVE SplitSlash(_, _)
SplitSlash(str, cur) ==
    IF str = << >> THEN <<cur>>
    ELSE IF Head(str) = "/"
         THEN <<cur>> \o SplitSlash(Tail(str), << >>)
         ELSE SplitSlash(Tail(str), Append(cur, Head(str)))

\* filter((x) => x && x !== ".")
RECURSIVE FilterSegments(_)
FilterSegments(segs) ==
    IF segs = << >> THEN << >>
    ELSE IF Head(segs) # << >> /\ Head(segs) # <<".">>
         THEN <<Head(segs)>> \o FilterSegments(Tail(segs))
         ELSE FilterSegments(Tail(segs))

\* utils.ts: path.replace(/\.mdx?$/, "").split("/").filter(...)
extractHierarchy(path) == FilterSegments(SplitSlash(StripMdExt(path), << >>))

\* replace(/^\/+/, "")
RECURSIVE StripLeadingSlashes(_)
StripLeadingSlashes(str) ==
    IF str # << >> /\ Head(str) = "/" THEN StripLeadingSlashes(Tail(str))
    ELSE str

\* new URL(url) does not throw: the string starts with a scheme (letters,
\* then ":"); a relative reference has no base to resolve against
RECURSIVE HasScheme(_, _)
HasScheme(url, seen) ==
    IF url = << >> THEN FALSE
    ELSE IF Head(url) \in Lower \cup Upper THEN HasScheme(Tail(url), TRUE)
    ELSE Head(url) = ":" /\ seen
IsValidUrl(url) == HasScheme(url, FALSE)

\* the frontmatter title and subtitle, prepended as heading elements
FinalHtml(d) ==
    (IF Truthy(d.title)
     THEN <<[tag |-> "H1", text |-> ValueOf(d.title)]>> ELSE << >>)
    \o (IF Truthy(d.subtitle)
        THEN <<[tag |-> "H2", text |-> ValueOf(d.subtitle)]>> ELSE << >>)
    \o d.body

\* const slug = frontmatter.slug ?? relativePath.replace(/\.mdx?$/, "")
SlugOf(d) == Coalesce(d.slug, StripMdExt(d.relativePath))

\* const sourceUrl = rootUrl ? `${rootUrl}${baseUrl}` : baseUrl
SourceUrlOf(d) ==
    LET baseUrl == <<"/">> \o StripLeadingSlashes(SlugOf(d))
    IN  IF Truthy(d.rootUrl) THEN ValueOf(d.rootUrl) \o baseUrl ELSE baseUrl

\* frontmatter.weight ?? (section.level === 1 ? 1.2 : 1.0)
WeightAlwaysDefault(d, section) ==
    IF section.level = 1 THEN H1Weight ELSE DefaultWeight
WeightOf(d, section) ==
    Coalesce(d.weight, IF section.level = 1 THEN H1Weight ELSE DefaultWeight)

\* generateTrackingId(slug, section.heading)
MdTrackingId(d, section) == generateTrackingId(<<SlugOf(d), section.heading>>)

\* the record built for one section (chunk_html, semantic_content and the
\* metadata map repeat the heading, the body and the frontmatter texts)
MdChunk(d, section) ==
    [tracking_id          |-> MdTrackingId(d, section),
     source_url           |-> SourceUrlOf(d),
     tag_set              |-> extractHierarchy(d.relativePath),
     heading              |-> section.heading,
     fulltext_content     |-> section.heading \o <<" ">> \o section.body,
     weight               |-> WeightOf(d, section),
     refresh_on_duplicate |-> TRUE,
     group_tracking_ids   |-> <<d.relativePath>>]

\* what extractChunksFromMarkdown returns
MarkdownChunks(d) ==
    IF d.file = "unreadable" THEN << >>        \* readFile throws: catch
    ELSE IF d.file = "vue" THEN << >>          \* Vue component file
    \* an empty frontmatter block: parseYaml("") is null, reading
    \* frontmatter.title throws a TypeError: catch
    ELSE IF d.file = "nullfm" THEN << >>
    ELSE IF Truthy(d.rootUrl) /\ ~IsValidUrl(SourceUrlOf(d)) THEN << >>
    ELSE LET secs == splitIntoSections(FinalHtml(d))
         IN  [k \in 1..Len(secs) |-> MdChunk(d, secs[k])]

----------------------------------------------------------------------------
(* extractChunksFromOpenAPI (packages/vitepress/src/openapi.ts:65-190) *)

MaxPaths == 2
MaxOps   == 2

\* ["get", "post", "put", "patch", "delete", "options", "head"]
HttpMethods ==
    { <<"g", "e", "t">>, <<"p", "o", "s", "t">>, <<"p", "u", "t">>,
      <<"p", "a", "t", "c", "h">>, <<"d", "e", "l", "e", "t", "e">>,
      <<"o", "p", "t", "i", "o", "n", "s">>, <<"h", "e", "a", "d">> }

\* [...].includes(key.toLowerCase())
IsMethodKeyAnyKey(key) == TRUE
IsMethodKey(key) == ToLowerCase(key) \in HttpMethods

\* replace(/\/+$/, "")
RECURSIVE StripTrailingSlashes(_)
StripTrailingSlashes(str) ==
    IF str # << >> /\ str[Len(str)] = "/"
    THEN StripTrailingSlashes(SubSeq(str, 1, Len(str) - 1))
    ELSE str

\* operation.operationId ?? generateTrackingId(method, path)
OperationId(key, path, operation) ==
    Coalesce(operation.operationId, generateTrackingId(<<key, path>>))

\* the page link: site root (trailing slashes removed), API reference
\* prefix, operation id
PageLink(spec, operationId) ==
    LET apiPath == Coalesce(spec.apiRefParent, <<"a", "p", "i">>)
        normalizedSiteUrl ==
            IF IsDefined(spec.siteUrl)
            THEN StripTrailingSlashes(ValueOf(spec.siteUrl)) ELSE << >>
    IN  IF normalizedSiteUrl # << >>
        THEN normalizedSiteUrl \o <<"/">> \o apiPath \o <<"/">> \o operationId
        ELSE <<"/">> \o apiPath \o <<"/">> \o operationId

\* the record built for one operation (the summary, description and tags
\* of the operation only add text to the record)
ApiChunk(spec, path, key, operation) ==
    LET operationId == OperationId(key, path, operation)
    IN  [tracking_id          |-> operationId,
         source_url           |-> PageLink(spec, operationId),
         tag_set              |-> <<<<"o", "p", "e", "n", "a", "p", "i", "-",
                                      "r", "o", "u", "t", "e">>,
                                    operationId, ToLowerCase(key)>>,
         method               |-> key,
         path                 |-> path,
         refresh_on_duplicate |-> TRUE,
         group_tracking_ids   |-> <<path>>]

\* the inner loop: one record for every key of the path item that names a
\* method and has an operation; an operation whose tags are not a list
\* (tags.join is not a function) throws before its record is pushed
RECURSIVE OpsChunks(_, _, _, _)
OpsChunks(spec, path, ops, acc) ==
    IF ops = << >> THEN [threw |-> FALSE, chunks |-> acc]
    ELSE LET op == Head(ops)
         IN  IF ~(IsMethodKey(op.key) /\ op.present)
             THEN OpsChunks(spec, path, Tail(ops), acc)
             ELSE IF op.tagsIsString
             THEN [threw |-> TRUE, chunks |-> acc]
             ELSE OpsChunks(spec, path, Tail(ops),
                            Append(acc, ApiChunk(spec, path, op.key, op)))

\* the outer loop over Object.entries(spec.paths)
RECURSIVE PathsChunks(_, _, _)
PathsChunks(spec, paths, acc) ==
    IF paths = << >> THEN [threw |-> FALSE, chunks |-> acc]
    ELSE LET r == OpsChunks(spec, Head(paths).path, Head(paths).ops, acc)
         IN  IF r.threw THEN r ELSE PathsChunks(spec, Tail(paths), r.chunks)

\* the try block: fetch, parse and dereference, then the loops
OpenAPITry(spec) ==
    IF ~spec.fetchOk THEN [threw |-> TRUE, chunks |-> << >>]
    ELSE IF ~IsDefined(spec.paths)            \* "No paths found"
    THEN [threw |-> FALSE, chunks |-> << >>]
    ELSE PathsChunks(spec, ValueOf(spec.paths), << >>)

\* what extractChunksFromOpenAPI returns: the catch logs the error, the
\* records pushed before it are returned
OpenAPIChunks(spec) == OpenAPITry(spec).chunks

----------------------------------------------------------------------------
(* The inputs and the steps of the extraction *)

SeqsUpTo(S, n) == UNION { [1..k -> S] : k \in 0..n }

IsInjective(seq, Key(_)) ==
    \A j, k \in 1..Len(seq) : j # k => Key(seq[j]) # Key(seq[k])

\* ---- splitIntoSections on its own
InitSplit ==
    /\ html \in SeqsUpTo(Elements, MaxElems)
    /\ sections = << >>
    /\ epc = "split"
    /\ doc = << >> /\ apiSpec = << >> /\ outChunks = << >>

Split ==
    /\ epc = "split"
    /\ sections' = splitIntoSections(html)
    /\ epc' = "split_done"
    /\ UNCHANGED <<html, doc, apiSpec, outChunks>>
    /\ UNCHANGED notExtract

\* ---- markdown documents: frontmatter, rendered body, path, root URL
BodyElements == [tag : { "H1", "H2", "P" }, text : { <<"a">>, <<"!">> }]
RelPaths     == { <<"x", ".", "m", "d">>, <<".", "m", "d">> }
RootUrls     == { Undefined,
                  Some(<<"h", ":", "/", "/", "d">>),
                  Some(<<"h", ":", "/", "/", "d", "/">>),
                  Some(<<"d">>) }

PlainDocs ==
    [file         : { "plain" },
     title        : { Undefined, Some(<<"T">>) },
     subtitle     : { Undefined, Some(<<"S">>) },
     slug         : { Undefined, Some(<< >>), Some(<<"s">>) },
     weight       : { Undefined, Some(15), Some(25), Some(0 - 5) },
     body         : SeqsUpTo(BodyElements, MaxBodyElems),
     relativePath : RelPaths,
     rootUrl      : RootUrls]

\* a Vue component file and a file that cannot be read
OtherDocs ==
    [file         : { "vue", "unreadable", "nullfm" },
     title        : { Some(<<"T">>) },
     subtitle     : { Undefined },
     slug         : { Undefined },
     weight       : { Undefined },
     body         : { <<[tag |-> "H1", text |-> <<"a">>]>> },
     relativePath : RelPaths,
     rootUrl      : { Undefined }]

\* ---- OpenAPI specifications
KeyGet    == <<"g", "e", "t">>
KeyGetUp  == <<"G", "E", "T">>
KeyPost   == <<"p", "o", "s", "t">>
KeyParams == <<"p", "a", "r", "a", "m", "s">>
ApiPaths  == { <<"/", "a">>, <<"/", "b", "/", "{", "i", "}">> }

KeyPut    == <<"p", "u", "t">>
OpVariants ==
    [key : { KeyGet }, present : { TRUE },
     operationId : { Undefined, Some(<< >>), Some(<<"o", "p">>) },
     tagsIsString : { FALSE }]
    \cup [key : { KeyGetUp, KeyParams }, present : { TRUE },
          operationId : { Undefined }, tagsIsString : { FALSE }]
    \cup [key : { KeyPost }, present : { FALSE }, operationId : { Undefined },
          tagsIsString : { FALSE }]
    \cup [key : { KeyPut }, present : { TRUE }, operationId : { Undefined },
          tagsIsString : { TRUE }]

OpKey(op) == op.key
OpsSeqs == { o \in SeqsUpTo(OpVariants, MaxOps) : IsInjective(o, OpKey) }

SamePath(p) == p
PathSeqs == { p \in SeqsUpTo(ApiPaths, MaxPaths) : IsInjective(p, SamePath) }

PathsObjects ==
    UNION { { [k \in 1..Len(p) |-> [path |-> p[k], ops |-> o[k]]] :
                o \in [1..Len(p) -> OpsSeqs] } : p \in PathSeqs }

ApiSpecs ==
    [fetchOk      : { TRUE },
     paths        : { Some(ps) : ps \in PathsObjects },
     siteUrl      : { Undefined, Some(<<"h", ":", "/", "/", "d", "/">>) },
     apiRefParent : { Undefined, Some(<<"r">>) }]
    \cup [fetchOk : BOOLEAN, paths : { Undefined },
          siteUrl : { Undefined }, apiRefParent : { Undefined }]

InitExtract ==
    /\ \/ doc \in PlainDocs \cup OtherDocs /\ apiSpec = << >> /\ epc = "markdown"
       \/ apiSpec \in ApiSpecs /\ doc = << >> /\ epc = "openapi"
    /\ html = << >>
    /\ sections = << >>
    /\ outChunks = << >>

\* extractChunksFromMarkdown(filePath, rootUrl, basePath)
ExtractMarkdown ==
    /\ epc = "markdown"
    /\ IF doc.file = "plain"
       THEN html' = FinalHtml(doc) /\ sections' = splitIntoSections(html')
       ELSE UNCHANGED <<html, sections>>
    /\ outChunks' = MarkdownChunks(doc)
    /\ epc' = "markdown_done"
    /\ UNCHANGED <<doc, apiSpec>>
    /\ UNCHANGED notExtract

\* extractChunksFromOpenAPI(specUrl, siteUrl, apiRefParent)
ExtractOpenAPI ==
    /\ epc = "openapi"
    /\ outChunks' = OpenAPIChunks(apiSpec)
    /\ epc' = "openapi_done"
    /\ UNCHANGED <<html, doc, apiSpec, sections>>
    /\ UNCHANGED notExtract

----------------------------------------------------------------------------
(* Korrektly.request (packages/sdk/src/index.ts:72-116) *)

\* errorText.substring(0, 500)
SnippetChars == 500

\* the longest response body of the model, in characters
MaxBodyChars == 501

Statuses == { 200, 204, 301, 401, 404, 422, 500 }

\* `${response.status}` and response.statusText
StatusString(status) ==
    CASE status = 200 -> "200" [] status = 204 -> "204"
      [] status = 301 -> "301" [] status = 401 -> "401"
      [] status = 404 -> "404" [] status = 422 -> "422"
      [] status = 500 -> "500"
StatusText(status) ==
    CASE status = 200 -> "OK" [] status = 204 -> "No Content"
      [] status = 301 -> "Moved Permanently" [] status = 401 -> "Unauthorized"
      [] status = 404 -> "Not Found" [] status = 422 -> "Unprocessable Entity"
      [] status = 500 -> "Internal Server Error"

\* response.ok: the status is in the range 200-299
ResponseOk(r) == r.status >= 200 /\ r.status <= 299

\* response.headers.get("content-type"); "absent" stands for null
ContentTypes == { "absent", "application/json", "application/json; charset=utf-8",
                  "text/html" }

\* contentType?.includes("application/json")
IncludesJsonAlways(contentType) == TRUE
IncludesJson(contentType) ==
    contentType \in { "application/json", "application/json; charset=utf-8" }

\* a body as text: n characters
BodyText(n) == [k \in 1..n |-> "x"]

\* JSON.stringify(await response.json()): the body text re-serialized
\* without its insignificant white space
JsonBodies == { "{\"message\":\"m\"}", "{ \"message\": \"m\" }" }
JsonRoundTrip(text) == "{\"message\":\"m\"}"

\* String.prototype.substring(0, n)
SubstringNoLimit(text, n) == text
Substring(text, n) == SubSeq(text, 1, Min(n, Len(text)))

\* what fetch resolved to: headers may be missing altogether (reading them
\* throws), reading or parsing the body may fail
Responses ==
    [status      : Statuses,
     headers     : { "missing", "present" },
     contentType : ContentTypes,
     jsonText    : JsonBodies,
     jsonParses  : BOOLEAN,
     textReads   : BOOLEAN,
     textLen     : { 0, 3, SnippetChars, MaxBodyChars }]

\* the message parts of `API request failed: ${status} ${statusText}`
BasicMessage(r) ==
    <<"API request failed: ", StatusString(r.status), " ", StatusText(r.status)>>

\* the try block that appends the error details; a throw inside it leaves
\* the basic message
ErrorMessageOf(r) ==
    IF r.headers = "missing" THEN BasicMessage(r)
    ELSE IF IncludesJson(r.contentType)
         THEN IF r.jsonParses
              THEN BasicMessage(r)
                   \o <<"\nError details: ", JsonRoundTrip(r.jsonText)>>
              ELSE BasicMessage(r)
         ELSE IF r.textReads
              THEN BasicMessage(r) \o <<"\nResponse body: ">>
                   \o Substring(BodyText(r.textLen), SnippetChars)
              ELSE BasicMessage(r)

\* ---- the constructor and the operations (index.ts:56-59, 158-285)

\* config.baseUrl || "https://korrektly.com"; URLs and other texts built
\* from templates are sequences of their parts
ProductionUrl == <<"https://korrektly.com">>
BaseUrlIgnoringConfig(cfg) == ProductionUrl
BaseUrl(cfg) ==
    IF Truthy(cfg.baseUrl) THEN ValueOf(cfg.baseUrl) ELSE ProductionUrl

\* JSON.stringify of an object given as its <<key, value>> properties: a
\* property whose value is undefined is left out
RECURSIVE StringifyProps(_)
StringifyProps(props) ==
    IF props = << >> THEN << >>
    ELSE LET p    == Head(props)
             rest == StringifyProps(Tail(props))
         IN  IF ~IsDefined(p.value) THEN rest
             ELSE <<p.key, ":", ValueOf(p.value)>>
                  \o (IF rest = << >> THEN << >> ELSE <<",">> \o rest)
JSONStringify(obj) == <<"{">> \o StringifyProps(obj) \o <<"}">>

\* the endpoint, method and body each operation hands to request
autocomplete(datasetId, request) ==
    [endpoint |-> <<"/api/v1/datasets/", datasetId, "/autocomplete">>,
     method |-> "POST", body |-> Some(request)]
createChunks(datasetId, request) ==
    [endpoint |-> <<"/api/v1/datasets/", datasetId, "/chunks">>,
     method |-> "POST", body |-> Some(request)]
search(datasetId, request) ==
    [endpoint |-> <<"/api/v1/datasets/", datasetId, "/search">>,
     method |-> "POST", body |-> Some(request)]
\* trackClick is called by index.test.ts:605; its definition follows the
\* pattern of the other three with the "clicks" endpoint
trackClick(datasetId, request) ==
    [endpoint |-> <<"/api/v1/datasets/", datasetId, "/clicks">>,
     method |-> "POST", body |-> Some(request)]

Operations == { "autocomplete", "createChunks", "search", "trackClick" }

ArgsOf(c) ==
    CASE c.op = "autocomplete" -> autocomplete(c.datasetId, c.request)
      [] c.op = "createChunks" -> createChunks(c.datasetId, c.request)
      [] c.op = "search"       -> search(c.datasetId, c.request)
      [] c.op = "trackClick"   -> trackClick(c.datasetId, c.request)

\* const url = `${this.baseUrl}${endpoint}`
RequestUrl(cfg, endpoint) == BaseUrl(cfg) \o endpoint

\* the second argument of fetch: method, headers, body
RequestInit(cfg, method, body) ==
    [method  |-> method,
     headers |-> [Authorization |-> <<"Bearer ", cfg.apiToken>>,
                  ContentType   |-> "application/json"],
     body    |-> IF IsDefined(body) THEN Some(JSONStringify(ValueOf(body)))
                                    ELSE Undefined]

\* the configurations and calls of the model
Configs ==
    [apiToken : { "tok" },
     baseUrl  : { Undefined, Some(<< >>), Some(<<"http://localhost:8000">>) }]
RequestA == <<[key |-> "query", value |-> Some("q")]>>
RequestB == <<[key |-> "query", value |-> Some("q")],
              [key |-> "limit", value |-> Undefined],
              [key |-> "search_type", value |-> Some("hybrid")]>>
Calls ==
    [op : Operations, datasetId : { "d1" }, request : { RequestA }]
    \cup [op : { "search" }, datasetId : { "d2" }, request : { RequestB }]

InitClient ==
    /\ config \in Configs
    /\ call \in Calls
    /\ fetches = << >>
    /\ response \in Responses \cup { [network |-> "down"] }
    /\ errorMessage = << >>
    /\ outcome = [kind |-> "pending"]
    /\ cpc = "request"

\* an operation calls request, which calls fetch(url, { method, headers,
\* body })
Request ==
    /\ cpc = "request"
    /\ LET req == ArgsOf(call)
       IN  fetches' = Append(fetches,
                [url  |-> RequestUrl(config, req.endpoint),
                 init |-> RequestInit(config, req.method, req.body)])
    /\ cpc' = "fetch"
    /\ UNCHANGED <<config, call, response, errorMessage, outcome>>
    /\ UNCHANGED notClient

\* await fetch(url, ...) rejects: the rejection is the call's
FetchRejectsRetry ==
    /\ cpc = "fetch"
    /\ "network" \in DOMAIN response
    /\ cpc' = "request"
    /\ UNCHANGED <<config, call, fetches, response, errorMessage, outcome>>
    /\ UNCHANGED notClient
FetchRejects ==
    /\ cpc = "fetch"
    /\ "network" \in DOMAIN response
    /\ outcome' = [kind |-> "rejected", error |-> <<"Network error">>]
    /\ cpc' = "done"
    /\ UNCHANGED <<config, call, fetches, response, errorMessage>>
    /\ UNCHANGED notClient

\* await fetch(url, ...) resolves
FetchResolves ==
    /\ cpc = "fetch"
    /\ "status" \in DOMAIN response
    /\ cpc' = IF ResponseOk(response) THEN "validate" ELSE "error_details"
    /\ UNCHANGED <<config, call, fetches, response, errorMessage, outcome>>
    /\ UNCHANGED notClient

\* if (!response.ok): assemble the message
ErrorDetails ==
    /\ cpc = "error_details"
    /\ errorMessage' = ErrorMessageOf(response)
    /\ cpc' = "throw"
    /\ UNCHANGED <<config, call, fetches, response, outcome>>
    /\ UNCHANGED notClient

\* throw new Error(errorMessage)
ThrowApiError ==
    /\ cpc = "throw"
    /\ outcome' = [kind |-> "rejected", error |-> errorMessage]
    /\ cpc' = "done"
    /\ UNCHANGED <<config, call, fetches, response, errorMessage>>
    /\ UNCHANGED notClient

\* a 2xx response that is not JSON: "Expected JSON response but got ..."
\* (or the TypeError of reading missing headers, or the failure of text())
RejectNonJson ==
    /\ cpc = "validate"
    /\ response.headers = "missing" \/ ~IncludesJson(response.contentType)
    /\ outcome' =
         IF response.headers = "missing"
         THEN [kind |-> "rejected", error |-> <<"TypeError">>]
         ELSE IF ~response.textReads
         THEN [kind |-> "rejected", error |-> <<"body read failed">>]
         ELSE [kind |-> "rejected",
               error |-> <<"Expected JSON response but got ",
                           response.contentType, ".\nResponse body: ">>
                         \o Substring(BodyText(response.textLen), SnippetChars)]
    /\ cpc' = "done"
    /\ UNCHANGED <<config, call, fetches, response, errorMessage>>
    /\ UNCHANGED notClient

\* return response.json()
ParseJson ==
    /\ cpc = "validate"
    /\ response.headers # "missing" /\ IncludesJson(response.contentType)
    /\ outcome' =
         IF response.jsonParses
         THEN [kind |-> "resolved", data |-> JsonRoundTrip(response.jsonText)]
         ELSE [kind |-> "rejected", error |-> <<"SyntaxError">>]
    /\ cpc' = "done"
    /\ UNCHANGED <<config, call, fetches, response, errorMessage>>
    /\ UNCHANGED notClient

----------------------------------------------------------------------------
(* main (packages/vitepress/src/markdown.ts:467-664) *)

\* uploadChunks(client, datasetId, chunks, batchSize = 80, maxRetries = 3)
DefaultBatchSize  == 80
DefaultMaxRetries == 3
\* main: uploadChunks(client, datasetId, validChunks, batchSize, 3, upsert)
MainMaxRetries == 3
\* .option("-b, --batch-size <number>", "...", "50")
CliDefaultBatchSize == <<"5", "0">>
\* .option("-a, --api-ref-path <path>", "...", "api")
CliDefaultApiRefPath == <<"a", "p", "i">>

\* parseInt(str, 10): leading white space, a sign, then the leading digits;
\* "NaN" when there is none
Digits == <<"0", "1", "2", "3", "4", "5", "6", "7", "8", "9">>
IsDigit(c) == \E k \in 1..10 : Digits[k] = c
DigitValue(c) == (CHOOSE k \in 1..10 : Digits[k] = c) - 1
RECURSIVE LeadingDigits(_, _)
LeadingDigits(str, acc) ==
    IF str # << >> /\ IsDigit(Head(str))
    THEN LeadingDigits(Tail(str), 10 * acc + DigitValue(Head(str)))
    ELSE acc
parseInt(str) ==
    LET t      == TrimStart(str)
        signed == t # << >> /\ Head(t) \in { "-", "+" }
        d      == IF signed THEN Tail(t) ELSE t
    IN  IF d = << >> \/ ~IsDigit(Head(d)) THEN "NaN"
        ELSE IF signed /\ Head(t) = "-" THEN 0 - LeadingDigits(d, 0)
        ELSE LeadingDigits(d, 0)

\* program.opts(): the flags given, the defaults for the others
Opts(flags) ==
    [dataset     |-> flags.dataset,
     rootUrl     |-> flags.rootUrl,
     openapiSpec |-> flags.openapiSpec,
     apiRefPath  |-> Coalesce(flags.apiRefPath, CliDefaultApiRefPath),
     batchSize   |-> Coalesce(flags.batchSize, CliDefaultBatchSize),
     upsert      |-> Coalesce(flags.upsert, TRUE)]

\* validateEnvironment: if (!KORREKTLY_API_TOKEN) missing.push(...)
TokenMissingOnlyUndefined(e) == ~IsDefined(e.KORREKTLY_API_TOKEN)
TokenMissing(e) == ~Truthy(e.KORREKTLY_API_TOKEN)

\* const datasetId = options.dataset ?? KORREKTLY_DATASET_ID
DatasetId(o, e) ==
    IF IsDefined(o.dataset) THEN o.dataset ELSE e.KORREKTLY_DATASET_ID

\* String.prototype.indexOf(sub, from), 1-based; 0 when sub does not occur
IndexOf(str, sub, from) ==
    LET hits == { k \in from..(Len(str) - Len(sub) + 1) :
                    SubSeq(str, k, k + Len(sub) - 1) = sub }
    IN  IF hits = {} THEN 0 ELSE CHOOSE k \in hits : \A h \in hits : k <= h
Includes(str, sub) == IndexOf(str, sub, 1) # 0

\* url.split("://")[1]: what lies between the first "://" and the next
AfterScheme(url) ==
    LET sep   == <<":", "/", "/">>
        first == IndexOf(url, sep, 1)
        next  == IndexOf(url, sep, first + 3)
    IN  IF next = 0 THEN SubSeq(url, first + 3, Len(url))
        ELSE SubSeq(url, first + 3, next - 1)

\* the filter of uniqueChunks: a record without source URL passes; one with
\* a URL passes if new URL(url) accepts it, nothing after the scheme holds
\* "//", and it holds no white space
ValidSourceUrl(url) ==
    \/ url = << >>
    \/ /\ IsValidUrl(url)
       /\ ~(Includes(url, <<":", "/", "/">>)
            /\ Includes(AfterScheme(url), <<"/", "/">>))
       /\ \A k \in 1..Len(url) : ~IsSpace(url[k])

\* extractMarkdownPaths(docsPath, ...): a directory that cannot be read is
\* logged and yields no path
extractMarkdownPaths(w) == IF w.dirReadable THEN w.files ELSE << >>

\* the arguments main hands to extractChunksFromOpenAPI and to
\* extractChunksFromMarkdown
OpenAPIArgs(w, o) ==
    [fetchOk      |-> w.api.fetchOk,
     paths        |-> w.api.paths,
     siteUrl      |-> o.rootUrl,
     apiRefParent |-> Some(o.apiRefPath)]
MarkdownArgs(file, o) == [file EXCEPT !.rootUrl = o.rootUrl]

\* for (const path of markdownPaths) allChunks = allChunks.concat(chunks)
RECURSIVE MarkdownPhaseStopAtError(_, _)
MarkdownPhaseStopAtError(paths, o) ==
    IF paths = << >> THEN << >>
    ELSE LET d == MarkdownArgs(Head(paths), o)
         IN  IF \/ d.file # "plain"
                \/ Truthy(d.rootUrl) /\ ~IsValidUrl(SourceUrlOf(d))
             THEN << >>
             ELSE MarkdownChunks(d) \o MarkdownPhaseStopAtError(Tail(paths), o)
RECURSIVE MarkdownPhase(_, _)
MarkdownPhase(paths, o) ==
    IF paths = << >> THEN << >>
    ELSE MarkdownChunks(MarkdownArgs(Head(paths), o))
         \o MarkdownPhase(Tail(paths), o)

\* ---- the environments, command lines and worlds of the model
Envs ==
    [KORREKTLY_API_TOKEN  : { Undefined, Some(<< >>), Some(<<"t">>) },
     KORREKTLY_DATASET_ID : { Undefined, Some(<<"e">>) }]

\* every flag given or not; then, with a dataset id, a root URL that is no
\* URL, --no-upsert, and the batch sizes 0 and -1
Flags ==
    [dataset     : { Undefined, Some(<< >>), Some(<<"d">>) },
     rootUrl     : { Undefined,
                     Some(<<"h", ":", "/", "/", "d">>),
                     Some(<<"h", ":", "/", "/", "d", "/">>) },
     openapiSpec : { Undefined, Some(<<"u">>) },
     apiRefPath  : { Undefined },
     batchSize   : { Undefined, Some(<<"1">>), Some(<<"2">>) },
     upsert      : { Undefined }]
    \cup [dataset     : { Some(<<"d">>) },
          rootUrl     : { Some(<<"d">>) },
          openapiSpec : { Undefined, Some(<<"u">>) },
          apiRefPath  : { Undefined },
          batchSize   : { Undefined },
          upsert      : { Undefined }]
    \cup [dataset     : { Some(<<"d">>) },
          rootUrl     : { Some(<<"h", ":", "/", "/", "d">>) },
          openapiSpec : { Undefined, Some(<<"u">>) },
          apiRefPath  : { Undefined },
          batchSize   : { Some(<<"2">>) },
          upsert      : { Some(FALSE) }]
    \cup [dataset     : { Some(<<"d">>) },
          rootUrl     : { Some(<<"h", ":", "/", "/", "d">>) },
          openapiSpec : { Undefined },
          apiRefPath  : { Undefined },
          batchSize   : { Some(<<"0">>), Some(<<"-", "1">>) },
          upsert      : { Undefined }]

\* markdown files: x.md, a file whose slug is "s", a file whose slug makes
\* its records collide with those of x.md, a file that cannot be read
DocA ==
    [file |-> "plain", title |-> Undefined, subtitle |-> Undefined,
     slug |-> Undefined, weight |-> Undefined,
     body |-> <<[tag |-> "H1", text |-> <<"a">>]>>,
     relativePath |-> <<"x", ".", "m", "d">>, rootUrl |-> Undefined]
DocB == [DocA EXCEPT !.slug = Some(<<"s">>)]
DocC == [DocA EXCEPT !.slug = Some(<<"x">>), !.title = Some(<<"T">>)]
DocUnreadable == [DocA EXCEPT !.file = "unreadable"]
\* a Vue component file, a file with an empty frontmatter block, a file
\* whose slug holds a space, a file whose slug holds "://"
DocVue    == [DocA EXCEPT !.file = "vue"]
DocNullFm == [DocA EXCEPT !.file = "nullfm"]
DocSpace  == [DocA EXCEPT !.slug = Some(<<"a", " ", "b">>)]
DocScheme == [DocA EXCEPT !.slug = Some(<<"a", ":", "/", "/", "b">>)]

\* the specification behind --openapi-spec: out of reach, or one operation
ApiDown == [fetchOk |-> FALSE, paths |-> Undefined]
ApiUp ==
    [fetchOk |-> TRUE,
     paths   |-> Some(<<[path |-> <<"/", "a">>,
                         ops  |-> <<[key |-> KeyGet, present |-> TRUE,
                                     operationId |-> Some(<<"o", "p">>),
                                     tagsIsString |-> FALSE]>>]>>)]
\* a specification whose second operation has tags that are no list: the
\* processing throws after the first record
ApiBroken ==
    [fetchOk |-> TRUE,
     paths   |-> Some(<<[path |-> <<"/", "a">>,
                         ops  |-> <<[key |-> KeyGet, present |-> TRUE,
                                     operationId |-> Some(<<"o", "p">>),
                                     tagsIsString |-> FALSE],
                                    [key |-> KeyPut, present |-> TRUE,
                                     operationId |-> Undefined,
                                     tagsIsString |-> TRUE]>>],
                        [path |-> <<"/", "b">>,
                         ops  |-> <<[key |-> KeyGet, present |-> TRUE,
                                     operationId |-> Undefined,
                                     tagsIsString |-> FALSE]>>]>>)]

Worlds ==
    [api         : { ApiDown, ApiUp },
     dirReadable : { TRUE },
     files       : { << >>, <<DocA>>, <<DocA, DocB>>, <<DocA, DocC>>,
                     <<DocUnreadable, DocB>> }]
    \cup [api : { ApiDown, ApiUp }, dirReadable : { FALSE },
          files : { <<DocA>> }]
    \cup [api : { ApiDown, ApiUp }, dirReadable : { TRUE },
          files : { <<DocVue, DocB>>, <<DocNullFm, DocB>>,
                    <<DocA, DocSpace, DocB>>, <<DocScheme>> }]
    \cup [api : { ApiBroken }, dirReadable : { TRUE },
          files : { << >>, <<DocA>> }]

InitMain ==
    /\ env \in Envs
    /\ options \in Flags
    /\ world \in Worlds
    /\ ~IsDefined(options.openapiSpec) => world.api = ApiDown
    /\ network = << >>
    /\ validChunks = << >>
    /\ exitCode = Undefined
    /\ mpc = "validate_env"

\* validateEnvironment(): process.exit(1) when the token is missing
ValidateEnvironment ==
    /\ mpc = "validate_env"
    /\ IF TokenMissing(env)
       THEN exitCode' = Some(1) /\ mpc' = "exited"
       ELSE mpc' = "dataset" /\ UNCHANGED exitCode
    /\ UNCHANGED <<env, options, world, network, validChunks>>
    /\ UNCHANGED <<uploadVars, dedupVars, extractVars, clientVars, fnVars>>

\* if (!datasetId) process.exit(1)
GetDatasetId ==
    /\ mpc = "dataset"
    /\ IF ~Truthy(DatasetId(Opts(options), env))
       THEN exitCode' = Some(1) /\ mpc' = "exited"
       ELSE mpc' = "openapi" /\ UNCHANGED exitCode
    /\ UNCHANGED <<env, options, world, network, validChunks>>
    /\ UNCHANGED <<uploadVars, dedupVars, extractVars, clientVars, fnVars>>

\* if (options.openapiSpec) allChunks = allChunks.concat(openapiChunks)
ProcessOpenAPIRethrow ==
    /\ mpc = "openapi"
    /\ LET o == Opts(options)
       IN  IF Truthy(o.openapiSpec)
           THEN /\ network' = Append(network, [fetch |-> ValueOf(o.openapiSpec)])
                /\ IF OpenAPITry(OpenAPIArgs(world, o)).threw
                   THEN /\ exitCode' = Some(1) /\ mpc' = "exited"
                        /\ UNCHANGED allChunks
                   ELSE /\ allChunks' =
                               allChunks \o OpenAPIChunks(OpenAPIArgs(world, o))
                        /\ mpc' = "markdown"
                        /\ UNCHANGED exitCode
           ELSE mpc' = "markdown" /\ UNCHANGED <<network, allChunks, exitCode>>
    /\ UNCHANGED <<env, options, world, validChunks>>
    /\ UNCHANGED <<uniqueMap, uniqueChunks, dpc>>
    /\ UNCHANGED <<uploadVars, extractVars, clientVars, fnVars>>
ProcessOpenAPI ==
    /\ mpc = "openapi"
    /\ LET o == Opts(options)
       IN  IF Truthy(o.openapiSpec)
           THEN /\ network' = Append(network, [fetch |-> ValueOf(o.openapiSpec)])
                /\ allChunks' = allChunks \o OpenAPIChunks(OpenAPIArgs(world, o))
           ELSE UNCHANGED <<network, allChunks>>
    /\ mpc' = "markdown"
    /\ UNCHANGED <<env, options, world, validChunks, exitCode>>
    /\ UNCHANGED <<uniqueMap, uniqueChunks, dpc>>
    /\ UNCHANGED <<uploadVars, extractVars, clientVars, fnVars>>

\* the try block of the markdown phase: nothing in it throws (the
\* directory walk and the extraction catch and log their own errors), so
\* the catch with process.exit(1) is not entered
ProcessMarkdownRethrow ==
    /\ mpc = "markdown"
    /\ IF world.dirReadable
       THEN /\ allChunks' = allChunks \o MarkdownPhase(world.files, Opts(options))
            /\ mpc' = "dedup" /\ dpc' = "assembled"
            /\ UNCHANGED exitCode
       ELSE /\ exitCode' = Some(1) /\ mpc' = "exited"
            /\ UNCHANGED <<allChunks, dpc>>
    /\ UNCHANGED <<env, options, world, network, validChunks>>
    /\ UNCHANGED <<uniqueMap, uniqueChunks>>
    /\ UNCHANGED <<uploadVars, extractVars, clientVars, fnVars>>
ProcessMarkdown ==
    /\ mpc = "markdown"
    /\ allChunks' = allChunks
           \o MarkdownPhase(extractMarkdownPaths(world), Opts(options))
    /\ mpc' = "dedup"
    /\ dpc' = "assembled"
    /\ UNCHANGED <<env, options, world, network, validChunks, exitCode>>
    /\ UNCHANGED <<uniqueMap, uniqueChunks>>
    /\ UNCHANGED <<uploadVars, extractVars, clientVars, fnVars>>

\* const validChunks = uniqueChunks.filter(...)
ValidateUrls ==
    /\ mpc = "dedup"
    /\ dpc = "deduplicated"
    /\ validChunks' =
           SelectSeq(uniqueChunks, LAMBDA c : ValidSourceUrl(c.source_url))
    /\ mpc' = "validated"
    /\ UNCHANGED <<env, options, world, network, exitCode>>
    /\ UNCHANGED <<uploadVars, dedupVars, extractVars, clientVars, fnVars>>

\* if (validChunks.length === 0) process.exit(0)
ExitNothing ==
    /\ mpc = "validated"
    /\ Len(validChunks) = 0
    /\ exitCode' = Some(0)
    /\ mpc' = "exited"
    /\ UNCHANGED <<env, options, world, network, validChunks>>
    /\ UNCHANGED <<uploadVars, dedupVars, extractVars, clientVars, fnVars>>

\* await uploadChunks(client, datasetId, validChunks, batchSize, 3, upsert)
CallUpload ==
    /\ mpc = "validated"
    /\ Len(validChunks) # 0
    /\ chunks' = validChunks
    /\ batchSize' =
           Coalesce(Some(parseInt(Opts(options).batchSize)), DefaultBatchSize)
    /\ maxRetries' = Coalesce(Some(MainMaxRetries), DefaultMaxRetries)
    \* const upsert = options.upsert !== false
    /\ upsert' = (Opts(options).upsert # FALSE)
    /\ pc' = "for"
    /\ mpc' = "uploading"
    /\ UNCHANGED <<i, batch, retries, success, inFlight, sends, delays>>
    /\ UNCHANGED <<env, options, world, network, validChunks, exitCode>>
    /\ UNCHANGED <<dedupVars, extractVars, clientVars, fnVars>>

\* uploadChunks returned: process.exit(0)
ExitDoneFailIfSkipped ==
    /\ mpc = "uploading"
    /\ pc = "done"
    /\ exitCode' = IF \A k \in 1..Len(sends) :
                         \E j \in 1..Len(sends) :
                             sends[j].start = sends[k].start /\ sends[j].ok
                   THEN Some(0) ELSE Some(1)
    /\ mpc' = "exited"
    /\ UNCHANGED <<env, options, world, network, validChunks>>
    /\ UNCHANGED <<uploadVars, dedupVars, extractVars, clientVars, fnVars>>
ExitDone ==
    /\ mpc = "uploading"
    /\ pc = "done"
    /\ exitCode' = Some(0)
    /\ mpc' = "exited"
    /\ UNCHANGED <<env, options, world, network, validChunks>>
    /\ UNCHANGED <<uploadVars, dedupVars, extractVars, clientVars, fnVars>>

----------------------------------------------------------------------------
(* generateTrackingId and isIgnored on their own                           *)
(* (packages/vitepress/src/utils.ts:80-142, 203-210)                       *)

MaxHeadingLen == 2
MaxPatterns   == 2

\* generateTrackingId(base, heading) for two headings
IdBases      == { << >>, <<"x">>, <<"x", "/", "y">> }
HeadingChars == { "a", "A", "b", " ", "!" }
Headings     == SeqsUpTo(HeadingChars, MaxHeadingLen)

InitTrackingId ==
    /\ args \in [base : IdBases, heading1 : Headings, heading2 : Headings]
    /\ result = << >>
    /\ fpc = "ids"

GenerateIds ==
    /\ fpc = "ids"
    /\ result' = [id1 |-> generateTrackingId(<<args.base, args.heading1>>),
                  id2 |-> generateTrackingId(<<args.base, args.heading2>>)]
    /\ fpc' = "ids_done"
    /\ UNCHANGED args
    /\ UNCHANGED <<uploadVars, dedupVars, extractVars, clientVars, mainVars>>

\* ---- isIgnored(relativePath, patterns)

StartsWith(str, prefix) ==
    Len(str) >= Len(prefix) /\ SubSeq(str, 1, Len(prefix)) = prefix

\* replace(/\./g, "\\."): a backslash before every dot
RECURSIVE EscapeDots(_)
EscapeDots(str) ==
    IF str = << >> THEN << >>
    ELSE (IF Head(str) = "." THEN <<"\\", ".">> ELSE <<Head(str)>>)
         \o EscapeDots(Tail(str))

\* replace(/\*\*/g, ".*"): the pairs of stars, from the left
RECURSIVE ReplaceStarPairs(_)
ReplaceStarPairs(str) ==
    IF str = << >> THEN << >>
    ELSE IF StartsWith(str, <<"*", "*">>)
         THEN <<".", "*">> \o ReplaceStarPairs(SubSeq(str, 3, Len(str)))
         ELSE <<Head(str)>> \o ReplaceStarPairs(Tail(str))

\* replace(/\*/g, "[^/]*"): every star that is left, those of ".*" included
RECURSIVE ReplaceStars(_)
ReplaceStars(str) ==
    IF str = << >> THEN << >>
    ELSE (IF Head(str) = "*" THEN <<"[", "^", "/", "]", "*">>
                             ELSE <<Head(str)>>)
         \o ReplaceStars(Tail(str))

\* the three replacements in the order of the code
RegexPattern(cleanPattern) ==
    ReplaceStars(ReplaceStarPairs(EscapeDots(cleanPattern)))

\* new RegExp(source): the source read as a sequence of atoms (an escaped
\* character, ".", the class "[^/]", a plain character), each with or
\* without a star
RECURSIVE ParseRegExp(_)
ParseRegExp(src) ==
    IF src = << >> THEN << >>
    ELSE LET n    == IF Head(src) = "\\" THEN 2
                     ELSE IF StartsWith(src, <<"[", "^", "/", "]">>) THEN 4
                     ELSE 1
             atom == IF Head(src) = "\\" THEN [kind |-> "char", c |-> src[2]]
                     ELSE IF n = 4 THEN [kind |-> "notslash", c |-> ""]
                     ELSE IF Head(src) = "." THEN [kind |-> "any", c |-> ""]
                     ELSE [kind |-> "char", c |-> Head(src)]
             star == Len(src) > n /\ src[n + 1] = "*"
             rest == SubSeq(src, n + (IF star THEN 2 ELSE 1), Len(src))
         IN  <<[atom |-> atom, star |-> star]>> \o ParseRegExp(rest)

AtomMatches(atom, c) ==
    CASE atom.kind = "char"     -> c = atom.c
      [] atom.kind = "any"      -> c # "\n"
      [] atom.kind = "notslash" -> c # "/"

\* regex.test(str) for a regex anchored at both ends
RECURSIVE MatchWhole(_, _)
MatchWhole(regex, str) ==
    IF regex = << >> THEN str = << >>
    ELSE LET t == Head(regex)
         IN  IF t.star
             THEN \/ MatchWhole(Tail(regex), str)
                  \/ /\ str # << >>
                     /\ AtomMatches(t.atom, Head(str))
                     /\ MatchWhole(regex, Tail(str))
             ELSE /\ str # << >>
                  /\ AtomMatches(t.atom, Head(str))
                  /\ MatchWhole(Tail(regex), Tail(str))

\* new RegExp(`^${regexPattern}$`).test(relativePath) ||
\* new RegExp(`^${regexPattern}/.*$`).test(relativePath)
WildcardTest(cleanPattern, relativePath) ==
    LET regexPattern == RegexPattern(cleanPattern)
    IN  \/ MatchWhole(ParseRegExp(regexPattern), relativePath)
        \/ MatchWhole(ParseRegExp(regexPattern \o <<"/", ".", "*">>),
                      relativePath)

\* the loop over relativePath.split("/"): a segment, or a leading part of
\* the path, that equals the pattern
ParentMatches(cleanPattern, relativePath) ==
    LET parts == SplitSlash(relativePath, << >>)
    IN  \E k \in 1..Len(parts) :
            \/ parts[k] = cleanPattern
            \/ Join(SubSeq(parts, 1, k), <<"/">>) = cleanPattern

\* the body of the loop over the patterns, for one pattern
PatternIgnores(relativePath, pattern) ==
    LET cleanPattern ==
            IF StartsWith(pattern, <<"/">>) THEN Tail(pattern) ELSE pattern
    IN  /\ ~StartsWith(pattern, <<"!">>)
        /\ \/ relativePath = cleanPattern
           \/ StartsWith(relativePath, cleanPattern \o <<"/">>)
           \/ EndsWith(pattern, <<"/">>) /\ StartsWith(relativePath, cleanPattern)
           \/ /\ Includes(cleanPattern, <<"*">>)
              /\ WildcardTest(cleanPattern, relativePath)
           \/ ParentMatches(cleanPattern, relativePath)

isIgnored(relativePath, patterns) ==
    \E k \in 1..Len(patterns) : PatternIgnores(relativePath, patterns[k])

\* the patterns and the paths of the model
IgnorePatterns ==
    { <<"*", "*", "/", "t", "e", "s", "t">>,  \* **/test
      <<"*", ".", "l", "o", "g">>,  \* *.log
      <<"d", "i", "s", "t">>,  \* dist
      <<"/", "d", "i", "s", "t">>,  \* /dist
      <<"!", "d", "i", "s", "t">>,  \* !dist
      <<"d", "o", "c", "s", "/", "*">>,  \* docs/*
      <<"*", "*">>,  \* **
      <<"a", ".", "b">>,  \* a.b
      <<"s", "r", "c", "/", "*", "*">> }  \* src/**
IgnoredPaths ==
    { <<"s", "r", "c", "/", "u", "t", "i", "l", "s", "/", "t", "e", "s", "t", "/", "f", "i", "l", "e", ".", "j", "s">>,  \* src/utils/test/file.js
      <<"t", "e", "s", "t", "/", "f", "i", "l", "e", ".", "j", "s">>,  \* test/file.js
      <<"a", "/", "t", "e", "s", "t", "/", "f", "i", "l", "e", ".", "j", "s">>,  \* a/test/file.js
      <<"e", "r", "r", "o", "r", ".", "l", "o", "g">>,  \* error.log
      <<"l", "o", "g", "s", "/", "e", "r", "r", "o", "r", ".", "l", "o", "g">>,  \* logs/error.log
      <<"d", "i", "s", "t">>,  \* dist
      <<"d", "o", "c", "s", "/", "d", "i", "s", "t", "/", "i", "n", "d", "e", "x", ".", "h", "t", "m", "l">>,  \* docs/dist/index.html
      <<"d", "o", "c", "s", "/", "a", ".", "m", "d">>,  \* docs/a.md
      <<"d", "o", "c", "s", "/", "a", "/", "b", ".", "m", "d">>,  \* docs/a/b.md
      <<"a", "x", "b">>,  \* axb
      <<"a", ".", "b">>,  \* a.b
      <<"s", "r", "c", "/", "i", "n", "d", "e", "x", ".", "t", "s">> }  \* src/index.ts

InitIgnore ==
    /\ \E n \in 1..MaxPatterns :
           args \in [relativePath : IgnoredPaths,
                     patterns     : [1..n -> IgnorePatterns]]
    /\ result = << >>
    /\ fpc = "ignore"

CheckIgnored ==
    /\ fpc = "ignore"
    /\ result' = isIgnored(args.relativePath, args.patterns)
    /\ fpc' = "ignore_done"
    /\ UNCHANGED args
    /\ UNCHANGED <<uploadVars, dedupVars, extractVars, clientVars, mainVars>>

----------------------------------------------------------------------------
(* parseGitignore and extractMarkdownPaths on a directory tree             *)
(* (packages/vitepress/src/utils.ts:29-48, 147-198)                        *)

MaxEntries == 3

\* parseGitignore(rootPath): the lines of .gitignore, trimmed, without the
\* empty lines and the comments, one trailing slash removed; no pattern
\* when the file cannot be read
StripOneSlash(pattern) ==
    IF EndsWith(pattern, <<"/">>) THEN SubSeq(pattern, 1, Len(pattern) - 1)
    ELSE pattern
parseGitignore(gitignore) ==
    IF ~IsDefined(gitignore) THEN << >>
    ELSE LET lines   == ValueOf(gitignore)
             trimmed == [k \in 1..Len(lines) |-> Trim(lines[k])]
             kept    == SelectSeq(trimmed,
                            LAMBDA l : l # << >> /\ ~StartsWith(l, <<"#">>))
         IN  [k \in 1..Len(kept) |-> StripOneSlash(kept[k])]

NodeModules == <<"n", "o", "d", "e", "_", "m", "o", "d", "u", "l", "e", "s">>

\* entry.name.endsWith(".mdx") || entry.name.endsWith(".md")
IsMarkdownName(name) ==
    EndsWith(name, <<".", "m", "d", "x">>) \/ EndsWith(name, <<".", "m", "d">>)

\* join(folderPath, entry.name), relative to the root directory
JoinPath(prefix, name) ==
    IF prefix = << >> THEN name ELSE prefix \o <<"/">> \o name

\* try { ... } catch (err) { console.error(...) } return mdPaths: the
\* error ends the loop, the paths pushed before it are returned
Rethrown(r) == r
Caught(r) == [threw |-> FALSE, paths |-> r.paths]

\* the loop over the entries of one directory and the call for one
\* directory; r.threw tells that an error left the function
RECURSIVE WalkEntries(_, _, _, _)
RECURSIVE extractMarkdownPathsIn(_, _, _)
WalkEntries(entries, prefix, patterns, mdPaths) ==
    IF entries = << >> THEN [threw |-> FALSE, paths |-> mdPaths]
    ELSE LET entry    == Head(entries)
             fullPath == JoinPath(prefix, entry.name)
         IN  IF entry.name = NodeModules \/ isIgnored(fullPath, patterns)
             THEN WalkEntries(Tail(entries), prefix, patterns, mdPaths)
             ELSE IF entry.kind = "dir"
             THEN LET subPaths ==
                          extractMarkdownPathsIn(entry, fullPath, patterns)
                  IN  IF subPaths.threw
                      THEN [threw |-> TRUE, paths |-> mdPaths]
                      ELSE WalkEntries(Tail(entries), prefix, patterns,
                                       mdPaths \o subPaths.paths)
             ELSE IF IsMarkdownName(entry.name)
             THEN WalkEntries(Tail(entries), prefix, patterns,
                              Append(mdPaths, fullPath))
             ELSE WalkEntries(Tail(entries), prefix, patterns, mdPaths)
extractMarkdownPathsIn(folder, prefix, patterns) ==
    Caught(IF ~folder.readable            \* readdir rejects
           THEN [threw |-> TRUE, paths |-> << >>]
           ELSE WalkEntries(folder.entries, prefix, patterns, << >>))

\* the call on the root directory: the patterns of .gitignore are loaded
\* when respectGitignore is set, there is none otherwise
extractMarkdownPathsOf(root, gitignore, respectGitignore) ==
    extractMarkdownPathsIn(root, << >>,
        IF respectGitignore THEN parseGitignore(gitignore) ELSE << >>)

\* ---- the directory trees of the model
FileEntry(name) ==
    [name |-> name, kind |-> "file", readable |-> TRUE, entries |-> << >>]
DirEntry(name, readable, entries) ==
    [name |-> name, kind |-> "dir", readable |-> readable,
     entries |-> entries]

TreeEntries ==
    { FileEntry(<<"a", ".", "m", "d">>),
      FileEntry(<<"b", ".", "m", "d", "x">>),
      FileEntry(<<"c", ".", "t", "x", "t">>),
      DirEntry(NodeModules, TRUE, <<FileEntry(<<"x", ".", "m", "d">>)>>),
      DirEntry(<<"s">>, TRUE, <<FileEntry(<<"d", ".", "m", "d">>)>>),
      DirEntry(<<"u">>, FALSE, <<FileEntry(<<"e", ".", "m", "d">>)>>),
      DirEntry(<<"d", "i", "s", "t">>, TRUE,
               <<FileEntry(<<"f", ".", "m", "d">>)>>),
      DirEntry(<<"n">>, TRUE,
               <<DirEntry(<<"u">>, FALSE, << >>),
                 FileEntry(<<"g", ".", "m", "d">>)>>) }

EntryName(e) == e.name
RootDirs ==
    { DirEntry(<< >>, TRUE, es) :
        es \in { s \in SeqsUpTo(TreeEntries, MaxEntries) :
                    IsInjective(s, EntryName) } }
    \cup { DirEntry(<< >>, FALSE, <<FileEntry(<<"a", ".", "m", "d">>)>>) }

\* .gitignore: missing, one pattern, a comment, a blank line and a
\* directory pattern
Gitignores ==
    { Undefined,
      Some(<<<<"d", "i", "s", "t">>>>),
      Some(<<<<"#", "s">>, <<" ">>, <<" ", "d", "i", "s", "t", "/">>>>) }

InitPaths ==
    /\ args \in [root : RootDirs, gitignore : Gitignores,
                 respectGitignore : BOOLEAN]
    /\ result = << >>
    /\ fpc = "paths"

ExtractPaths ==
    /\ fpc = "paths"
    /\ result' = extractMarkdownPathsOf(args.root, args.gitignore,
                                        args.respectGitignore)
    /\ fpc' = "paths_done"
    /\ UNCHANGED args
    /\ UNCHANGED <<uploadVars, dedupVars, extractVars, clientVars, mainVars>>

----------------------------------------------------------------------------
(* parseFrontmatter (packages/vitepress/src/markdown.ts:27-49) *)

MaxPieces == 4

Fence == <<"-", "-", "-">>

\* String.prototype.split(sep): the occurrences of sep from the left, not
\* overlapping
RECURSIVE SplitOn(_, _, _)
SplitOn(str, sep, cur) ==
    IF str = << >> THEN <<cur>>
    ELSE IF StartsWith(str, sep)
         THEN <<cur>> \o SplitOn(SubSeq(str, Len(sep) + 1, Len(str)), sep, << >>)
         ELSE SplitOn(Tail(str), sep, Append(cur, Head(str)))

\* parseYaml(str) on the texts of the model: the empty document is null, an
\* unclosed flow mapping throws, "key: value" is a mapping, any other text
\* of letters, blanks and line breaks is a plain scalar; source is the text
\* the node was parsed from
parseYaml(str) ==
    IF str = << >> THEN [kind |-> "null", source |-> str]
    ELSE IF Head(str) = "{" /\ ~Includes(str, <<"}">>)
    THEN [kind |-> "throws", source |-> str]
    ELSE IF Includes(str, <<":", " ">>) THEN [kind |-> "mapping", source |-> str]
    ELSE [kind |-> "scalar", source |-> str]

\* frontmatter: {}
EmptyFrontmatter == [kind |-> "empty", source |-> << >>]

parseFrontmatter(fileContent) ==
    LET parts == SplitOn(fileContent, Fence, << >>)
    IN  IF Len(parts) >= 3
           /\ parseYaml(Trim(parts[2])).kind # "throws"
        THEN [frontmatter |-> parseYaml(Trim(parts[2])),
              content     |-> Trim(Join(SubSeq(parts, 3, Len(parts)), Fence))]
        ELSE [frontmatter |-> EmptyFrontmatter, content |-> fileContent]

\* ---- the documents of the model: up to MaxPieces pieces of text, and
\* documents that open with a frontmatter block (a mapping, an empty block,
\* a block that is no YAML)
DocPieces == { Fence, <<"a">>, <<"b">>, <<"\n">>, <<" ">> }
FrontmatterDocs ==
    { Fence \o <<"\n", "t", ":", " ", "v", "\n">> \o Fence \o <<"\n", "a">>,
      Fence \o <<"\n">> \o Fence \o <<"\n", "a">>,
      Fence \o <<"\n", "{", "\n">> \o Fence \o <<"\n", "a">> }
FileContents ==
    { Concat(ps) : ps \in SeqsUpTo(DocPieces, MaxPieces) }
    \cup FrontmatterDocs

InitFrontmatter ==
    /\ args \in [fileContent : FileContents]
    /\ result = << >>
    /\ fpc = "frontmatter"

ParseFrontmatter ==
    /\ fpc = "frontmatter"
    /\ result' = parseFrontmatter(args.fileContent)
    /\ fpc' = "frontmatter_done"
    /\ UNCHANGED args
    /\ UNCHANGED <<uploadVars, dedupVars, extractVars, clientVars, mainVars>>

----------------------------------------------------------------------------
(* Specifications: each runs one component; the others stay idle *)

IdleUpload ==
    /\ chunks = << >> /\ batchSize = 0 /\ maxRetries = 0 /\ i = 0
    /\ upsert = TRUE
    /\ batch = << >> /\ retries = 0 /\ success = FALSE /\ pc = "idle"
    /\ inFlight = 0 /\ sends = << >> /\ delays = << >>
IdleDedup ==
    allChunks = << >> /\ uniqueMap = << >> /\ uniqueChunks = << >> /\ dpc = "idle"
IdleExtract ==
    /\ html = << >> /\ doc = << >> /\ apiSpec = << >> /\ sections = << >>
    /\ outChunks = << >> /\ epc = "idle"
IdleClient ==
    /\ config = << >> /\ call = << >> /\ fetches = << >>
    /\ response = << >> /\ errorMessage = << >>
    /\ outcome = [kind |-> "idle"] /\ cpc = "idle"

IdleMain ==
    /\ env = << >> /\ options = << >> /\ world = << >> /\ network = << >>
    /\ validChunks = << >> /\ exitCode = << >> /\ mpc = "idle"

IdleFn == args = << >> /\ result = << >> /\ fpc = "idle"

Init == InitUpload /\ IdleDedup /\ IdleExtract /\ IdleClient /\ IdleMain
        /\ IdleFn
Next ==
    ForBody \/ ForExit \/ SendCall \/ SendOk \/ SendFail \/ Delay \/ WhileExit
Spec == Init /\ [][Next]_vars

\* uploadChunks runs on: its own steps are taken, every createChunks call
\* returns (resolved or rejected), every backoff timer fires
Fairness ==
    /\ WF_vars(ForBody \/ ForExit \/ SendCall \/ WhileExit)
    /\ WF_vars(SendOk \/ SendFail)
    /\ WF_vars(Delay)
SpecLive == Init /\ [][Next]_vars /\ Fairness

InitD == InitDedup /\ IdleUpload /\ IdleExtract /\ IdleClient /\ IdleMain /\ IdleFn
NextD == BuildMap \/ TakeValues
SpecDedup == InitD /\ [][NextD]_vars

InitS == InitSplit /\ IdleUpload /\ IdleDedup /\ IdleClient /\ IdleMain /\ IdleFn
NextS == Split
SpecSplit == InitS /\ [][NextS]_vars

InitE == InitExtract /\ IdleUpload /\ IdleDedup /\ IdleClient /\ IdleMain /\ IdleFn
NextE == ExtractMarkdown \/ ExtractOpenAPI
SpecExtract == InitE /\ [][NextE]_vars

InitC == InitClient /\ IdleUpload /\ IdleDedup /\ IdleExtract /\ IdleMain /\ IdleFn
NextC ==
    \/ Request
    \/ FetchRejects \/ FetchResolves \/ ErrorDetails \/ ThrowApiError
    \/ RejectNonJson \/ ParseJson
SpecClient == InitC /\ [][NextC]_vars

\* main runs the de-duplication and the upload as its own steps
InitM ==
    InitMain /\ IdleUpload /\ IdleDedup /\ IdleExtract /\ IdleClient /\ IdleFn
NextM ==
    \/ ValidateEnvironment \/ GetDatasetId \/ ProcessOpenAPI
    \/ ProcessMarkdown \/ BuildMap \/ TakeValues \/ ValidateUrls
    \/ ExitNothing \/ CallUpload
    \/ ForBody \/ ForExit \/ SendCall \/ SendOk \/ SendFail \/ Delay
    \/ WhileExit
    \/ ExitDone
SpecMain == InitM /\ [][NextM]_vars

IdleAllButFn ==
    IdleUpload /\ IdleDedup /\ IdleExtract /\ IdleClient /\ IdleMain

InitT == InitTrackingId /\ IdleAllButFn
NextT == GenerateIds
SpecTrackingId == InitT /\ [][NextT]_vars

InitI == InitIgnore /\ IdleAllButFn
NextI == CheckIgnored
SpecIgnore == InitI /\ [][NextI]_vars

InitP == InitPaths /\ IdleAllButFn
NextP == ExtractPaths
SpecPaths == InitP /\ [][NextP]_vars

InitF == InitFrontmatter /\ IdleAllButFn
NextF == ParseFrontmatter
SpecFrontmatter == InitF /\ [][NextF]_vars

----------------------------------------------------------------------------
(* Properties of uploadChunks (specification Spec) *)

SendsOf(b)  == SelectSeq(sends, LAMBDA s : s.start = b)
DelaysOf(b) == SelectSeq(delays, LAMBDA d : d.start = b)
AllSendsOk  == \A k \in 1..Len(sends) : sends[k].ok
Uploaded(b) == \E k \in 1..Len(sends) : sends[k].start = b /\ sends[k].ok

\* the start indexes of the batches of the list: 0, B, 2B, ... below N
BatchStarts ==
    { b \in 0..Len(chunks) : b < Len(chunks) /\ b % batchSize = 0 }

\* C1: when every send succeeds, a finished upload has issued ceil(N/B)
\* createChunks calls, each with at most B records, and the batches sent,
\* concatenated in call order, are the input list.
C1_BatchPartitioning ==
    (pc = "done" /\ AllSendsOk) =>
        /\ Len(sends) = (Len(chunks) + batchSize - 1) \div batchSize
        /\ \A k \in 1..Len(sends) : Len(sends[k].batch) <= batchSize
        /\ Concat([k \in 1..Len(sends) |-> sends[k].batch]) = chunks

\* a finished upload of several batches, all sent at the first attempt,
\* the last one shorter than the batch size
C1_Witness ==
    /\ pc = "done" /\ AllSendsOk
    /\ Len(sends) >= 2
    /\ Len(sends[Len(sends)].batch) < batchSize

\* C2: a batch that is uploaded after k failed attempts has had k + 1
\* sends (k failures, then the success, k <= maxRetries) and k delays, the
\* j-th of min(1000 * 2^(j-1), 10000) ms: the delays never decrease and
\* never exceed 10000 ms.
C2_RetryBackoff ==
    \A b \in BatchStarts : Uploaded(b) =>
        LET S == SendsOf(b)
            D == DelaysOf(b)
            k == Len(S) - 1
        IN  /\ k <= maxRetries
            /\ \A j \in 1..k : ~S[j].ok
            /\ S[k + 1].ok
            /\ Len(D) = k
            /\ \A j \in 1..k :
                 /\ D[j].ms = (IF 1000 * 2 ^ (j - 1) <= 10000
                               THEN 1000 * 2 ^ (j - 1) ELSE 10000)
                 /\ D[j].ms <= 10000
                 /\ j > 1 => D[j].ms >= D[j - 1].ms

\* a batch uploaded at its sixth attempt: five delays, the fifth capped
C2_Witness ==
    \E b \in BatchStarts :
        /\ Uploaded(b)
        /\ Len(SendsOf(b)) = 6
        /\ Len(DelaysOf(b)) = 5
        /\ DelaysOf(b)[2].ms = 2000
        /\ DelaysOf(b)[5].ms = 10000

\* C3: no batch is sent more than maxRetries + 1 times; the sends follow
\* the order of the batches; and a finished upload has attempted every
\* batch at least once, whatever sends failed before it.
C3_SkipAndContinue ==
    /\ \A b \in BatchStarts : Len(SendsOf(b)) <= maxRetries + 1
    /\ \A k \in 1..Len(sends) : sends[k].start \in BatchStarts
    /\ \A j, k \in 1..Len(sends) : j < k => sends[j].start <= sends[k].start
    /\ pc = "done" => \A b \in BatchStarts : Len(SendsOf(b)) >= 1

\* a finished upload whose first batch failed at every attempt (retries
\* included) and whose later batch was still sent
C3_Witness ==
    /\ pc = "done"
    /\ maxRetries >= 1
    /\ Cardinality(BatchStarts) >= 2
    /\ ~Uploaded(0)
    /\ Len(SendsOf(0)) = maxRetries + 1
    /\ \E b \in BatchStarts : b > 0 /\ Uploaded(b)

----------------------------------------------------------------------------
(* Properties of the de-duplication (specification SpecDedup) *)

IdsOf(records) == { records[k].tracking_id : k \in 1..Len(records) }

LastIndexOf(id) ==
    CHOOSE k \in 1..Len(allChunks) :
        /\ allChunks[k].tracking_id = id
        /\ \A j \in (k + 1)..Len(allChunks) : allChunks[j].tracking_id # id

\* C4: the unique-record set holds exactly one record per distinct
\* tracking id, namely the last record of the assembled list with that id.
C4_Deduplication ==
    dpc = "deduplicated" =>
        /\ Len(uniqueChunks) = Cardinality(IdsOf(allChunks))
        /\ \A id \in IdsOf(allChunks) :
             /\ Cardinality({ k \in 1..Len(uniqueChunks) :
                                uniqueChunks[k].tracking_id = id }) = 1
             /\ \E k \in 1..Len(uniqueChunks) :
                  uniqueChunks[k] = allChunks[LastIndexOf(id)]

\* a list in which a tracking id occurs twice, de-duplicated to two records
C4_Witness ==
    /\ dpc = "deduplicated"
    /\ Len(uniqueChunks) = 2
    /\ \E j, k \in 1..Len(allChunks) :
         j < k /\ allChunks[j].tracking_id = allChunks[k].tracking_id

----------------------------------------------------------------------------
(* Properties of the extraction (specifications SpecExtract, SpecSplit) *)

\* C5: every record an extractor returns has a non-empty tracking id.
C5_NonEmptyTrackingId ==
    \A k \in 1..Len(outChunks) : outChunks[k].tracking_id # << >>

\* C6: every record built from a markdown section has a weight in [0, 2]
\* (0..20 tenths).
C6_WeightInRange ==
    epc = "markdown_done" =>
        \A k \in 1..Len(outChunks) :
            outChunks[k].weight >= 0 /\ outChunks[k].weight <= 20

\* the document of C7: frontmatter {title: "T", weight: 1.5}, a body of one
\* level-1 heading, and a source URL that passes the per-file check
IsC7Doc ==
    /\ epc = "markdown_done"
    /\ doc.file = "plain"
    /\ doc.title = Some(<<"T">>) /\ doc.weight = Some(15)
    /\ doc.subtitle = Undefined /\ doc.slug = Undefined
    /\ doc.body = <<[tag |-> "H1", text |-> <<"a">>]>>
    /\ doc.rootUrl \in { Undefined, Some(<<"h", ":", "/", "/", "d">>) }

\* C7 as stated: that document yields exactly one record, of weight 1.5.
C7_OneRecord ==
    IsC7Doc => Len(outChunks) = 1 /\ outChunks[1].weight = 15

\* C7, amended: that document yields exactly two records, one for the
\* title "T" (prepended as a level-1 heading) and one for the body's
\* heading, and both have weight 1.5, not the level-1 default 1.2.
C7_TwoRecords ==
    IsC7Doc =>
        /\ Len(outChunks) = 2
        /\ outChunks[1].heading = <<"T">> /\ outChunks[2].heading = <<"a">>
        /\ \A k \in 1..2 : outChunks[k].weight = 15

C7_Witness == IsC7Doc /\ Len(outChunks) = 2

\* the index of the first heading element after element k, or Len + 1
NextHeadingAfter(k) ==
    IF \E n \in (k + 1)..Len(html) : IsHeading(html[n].tag)
    THEN CHOOSE n \in (k + 1)..Len(html) :
            /\ IsHeading(html[n].tag)
            /\ \A m \in (k + 1)..(n - 1) : ~IsHeading(html[m].tag)
    ELSE Len(html) + 1

\* the normalized text of the elements between heading k and the next one
BodyAfter(k) ==
    cleanText(Join([n \in 1..(NextHeadingAfter(k) - k - 1) |-> html[k + n].text],
                   <<"\n">>))

\* the sections expected for the heading elements at the indexes idx
ExpectedSections(idx) ==
    [j \in 1..Len(idx) |->
        [heading |-> cleanText(html[idx[j]].text),
         body    |-> BodyAfter(idx[j]),
         level   |-> HeadingLevel(html[idx[j]].tag)]]

SectionsWellFormed ==
    \A j \in 1..Len(sections) :
        sections[j].heading # << >> /\ sections[j].level \in 1..6

\* C8 as stated: one section per top-level heading whose text is not empty.
C8_PerNonEmptyHeading ==
    epc = "split_done" =>
        /\ sections = ExpectedSections(SelectIdx(html,
               LAMBDA k : IsHeading(html[k].tag) /\ html[k].text # << >>))
        /\ SectionsWellFormed

\* C8, amended: one section per top-level heading (h1-h6) whose
\* whitespace-normalized text is not empty, in document order; its body is
\* the normalized text of the non-heading elements up to the next heading;
\* what precedes the first heading is in no section; every section has a
\* non-empty heading and a level in 1..6.
C8_SectionSplitting ==
    epc = "split_done" =>
        /\ sections = ExpectedSections(SelectIdx(html,
               LAMBDA k : IsHeading(html[k].tag)
                          /\ cleanText(html[k].text) # << >>))
        /\ SectionsWellFormed

\* text before the first heading, then two headings with a body each
C8_Witness ==
    /\ epc = "split_done"
    /\ Len(html) = 4
    /\ html[1] = [tag |-> "P", text |-> <<"a">>]
    /\ html[2].tag = "H1" /\ html[3].tag = "P" /\ html[4].tag = "H6"
    /\ Len(sections) = 2
    /\ sections[1].body = <<"a", " ", "b">>
    /\ sections[2].body = << >>

----------------------------------------------------------------------------
(* Properties of Korrektly.request (specification SpecClient) *)

Contains(seq, token) == \E k \in 1..Len(seq) : seq[k] = token
CountOf(seq, token)  == Cardinality({ k \in 1..Len(seq) : seq[k] = token })

IsJsonType(contentType) ==
    contentType \in { "application/json", "application/json; charset=utf-8" }

Is2xx(status) == status \in 200..299

\* C9: a response with a non-2xx status makes the call reject with an
\* error that names the status code and the status text; with a JSON
\* content type (and a body that parses) it also carries the parsed body,
\* otherwise the first 500 characters of the body text; when the headers
\* or the body cannot be read the error is the status line alone.
C9_NonOkRejects ==
    (cpc = "done" /\ "status" \in DOMAIN response /\ ~Is2xx(response.status)) =>
        /\ outcome.kind = "rejected"
        /\ Contains(outcome.error, StatusString(response.status))
        /\ Contains(outcome.error, StatusText(response.status))
        /\ LET readable == response.headers = "present"
               json     == readable /\ IsJsonType(response.contentType)
               text     == readable /\ ~IsJsonType(response.contentType)
           IN  /\ (json /\ response.jsonParses) =>
                     /\ Contains(outcome.error, "\nError details: ")
                     /\ Contains(outcome.error, "{\"message\":\"m\"}")
               /\ (text /\ response.textReads) =>
                     /\ Contains(outcome.error, "\nResponse body: ")
                     /\ CountOf(outcome.error, "x") =
                            (IF response.textLen <= 500
                             THEN response.textLen ELSE 500)
               /\ (~readable \/ (json /\ ~response.jsonParses)
                             \/ (text /\ ~response.textReads)) =>
                     Len(outcome.error) = 4

\* a 404 with an HTML body of 501 characters: the error carries 500 of them
C9_Witness ==
    /\ cpc = "done" /\ "status" \in DOMAIN response
    /\ response.status = 404
    /\ response.headers = "present" /\ response.contentType = "text/html"
    /\ response.textReads /\ response.textLen = 501
    /\ outcome.kind = "rejected"
    /\ Contains(outcome.error, "404") /\ Contains(outcome.error, "Not Found")
    /\ CountOf(outcome.error, "x") = 500

\* C10: a 2xx response whose content type is not JSON, or absent, never
\* yields a result: the call rejects.
C10_NonJsonSuccessRejects ==
    (/\ cpc = "done" /\ "status" \in DOMAIN response
     /\ Is2xx(response.status)
     /\ (response.headers = "missing" \/ ~IsJsonType(response.contentType))) =>
        outcome.kind = "rejected"

\* a 200 with content type text/html, rejected as not JSON
C10_Witness ==
    /\ cpc = "done" /\ "status" \in DOMAIN response
    /\ response.status = 200
    /\ response.headers = "present" /\ response.contentType = "text/html"
    /\ response.textReads
    /\ outcome.kind = "rejected"
    /\ Contains(outcome.error, "Expected JSON response but got ")

----------------------------------------------------------------------------
(* Properties of the client's operations (specification SpecClient) *)

\* C11: a call of a client operation performs exactly one HTTP request,
\* whether it ends with a result, with the error of an HTTP error response
\* or with a network failure: never more than one fetch, and exactly one
\* once the call has ended.
C11_NeverRetries ==
    /\ Len(fetches) <= 1
    /\ cpc = "done" => Len(fetches) = 1

\* a call that ended with a network failure after its one request
C11_Witness ==
    /\ cpc = "done"
    /\ "network" \in DOMAIN response
    /\ outcome.kind = "rejected"
    /\ Len(fetches) = 1

\* the last part of each operation's URL
EndpointName(op) ==
    CASE op = "autocomplete" -> "/autocomplete"
      [] op = "createChunks" -> "/chunks"
      [] op = "search"       -> "/search"
      [] op = "trackClick"   -> "/clicks"

\* the JSON text of the requests of the model
ExpectedBody(request) ==
    IF request = RequestA
    THEN <<"{", "query", ":", "q", "}">>
    ELSE <<"{", "query", ":", "q", ",", "search_type", ":", "hybrid", "}">>

----------------------------------------------------------------------------
(* Properties of main (specification SpecMain) *)

\* the token is missing; the dataset id is given neither by flag nor by
\* environment variable
NoToken   == ~Truthy(env.KORREKTLY_API_TOKEN)
NoDataset == ~Truthy(options.dataset) /\ ~Truthy(env.KORREKTLY_DATASET_ID)

\* a token, and a dataset id from the flag or, without the flag, from the
\* environment
ConfigValid ==
    /\ Truthy(env.KORREKTLY_API_TOKEN)
    /\ \/ Truthy(options.dataset)
       \/ ~IsDefined(options.dataset) /\ Truthy(env.KORREKTLY_DATASET_ID)

NoNetworkCall == network = << >> /\ sends = << >> /\ inFlight = 0

\* C13: when the API token is missing, or the dataset id is given neither
\* by flag nor by environment variable, main gets no further than its two
\* configuration checks, it exits with code 1, and no network call (the
\* OpenAPI fetch, a chunk upload) is ever made.
C13_ConfigErrorsFatal ==
    (mpc # "idle" /\ (NoToken \/ NoDataset)) =>
        /\ mpc \in { "validate_env", "dataset", "exited" }
        /\ mpc = "exited" => exitCode = Some(1)
        /\ NoNetworkCall

\* a run with a token and no dataset id, asked to index an OpenAPI
\* specification: exit code 1, nothing fetched
C13_Witness ==
    /\ mpc = "exited"
    /\ ~NoToken /\ NoDataset
    /\ Truthy(options.openapiSpec)
    /\ exitCode = Some(1)
    /\ NoNetworkCall

\* the batch starting at b was sent maxRetries + 1 times, never with success
Skipped(b) ==
    /\ Len(SendsOf(b)) = maxRetries + 1
    /\ ~Uploaded(b)

\* C14: with a valid configuration main exits only with code 0; it exits
\* when uploadChunks has completed, also when batches were skipped, or
\* when no record is left to upload, and then uploadChunks was not called.
C14_ExitZero ==
    (mpc = "exited" /\ ConfigValid) =>
        /\ exitCode = Some(0)
        /\ IF validChunks = << >>
           THEN pc = "idle" /\ sends = << >> /\ inFlight = 0
           ELSE pc = "done"

\* exit code 0 after an upload whose first batch was skipped
C14_Witness ==
    /\ mpc = "exited" /\ ConfigValid
    /\ exitCode = Some(0)
    /\ pc = "done"
    /\ Skipped(0)

\* what the OpenAPI phase alone contributes to allChunks
OpenAPIPart ==
    IF Truthy(options.openapiSpec)
    THEN OpenAPIChunks(OpenAPIArgs(world, Opts(options)))
    ELSE << >>

\* C15 as stated: a run whose docs directory cannot be read ends with exit
\* code 1.
C15_DirErrorFatal ==
    (mpc = "exited" /\ ConfigValid /\ ~world.dirReadable) =>
        exitCode = Some(1)

\* C15 amended: a docs directory that cannot be read is not fatal: it
\* contributes no record, main goes on with the records of the OpenAPI
\* phase and exits with code 0.
C15_DirErrorNotFatal ==
    (ConfigValid /\ ~world.dirReadable) =>
        /\ mpc \in { "dedup", "validated", "uploading", "exited" } =>
               allChunks = OpenAPIPart
        /\ mpc = "exited" => exitCode = Some(0)

\* the directory cannot be read, the operation of the OpenAPI
\* specification is uploaded, exit code 0
C15_Witness ==
    /\ mpc = "exited" /\ ConfigValid
    /\ ~world.dirReadable
    /\ exitCode = Some(0)
    /\ Len(allChunks) = 1
    /\ Uploaded(0)

\* C17: when no batch size is given on the command line, uploadChunks
\* runs with batch size 80.
C17_DefaultBatchSize80 ==
    (mpc \in { "uploading", "exited" } /\ pc # "idle"
     /\ ~IsDefined(options.batchSize)) =>
        batchSize = 80

----------------------------------------------------------------------------
(* Properties of generateTrackingId (specification SpecTrackingId) *)

\* C16 as stated: for a fixed base, two heading texts that differ give
\* different ids.
C16_DifferentHeadingsDifferentIds ==
    (fpc = "ids_done" /\ args.heading1 # args.heading2) =>
        result.id1 # result.id2

\* the id of a heading text on its own: its white-space runs replaced by
\* "-", the characters outside a-z, A-Z, 0-9, "-", "_", "/" removed, in
\* lower case
HeadingId(heading) == generateTrackingId(<<heading>>)

\* C16 amended: for a fixed base, two heading texts that still differ
\* once normalized the way ids are (white-space runs to "-", other
\* characters than letters, digits, "-", "_", "/" removed, lower case)
\* give different ids.
C16_NormalizedHeadingsDiffer ==
    (fpc = "ids_done" /\ HeadingId(args.heading1) # HeadingId(args.heading2)) =>
        result.id1 # result.id2

\* "ab" and "a " under base x: the ids x-ab and x-a-
C16_Witness ==
    /\ fpc = "ids_done"
    /\ args.base = <<"x">>
    /\ args.heading1 = <<"a", "b">> /\ args.heading2 = <<"a", " ">>
    /\ result.id1 = <<"x", "-", "a", "b">>
    /\ result.id2 = <<"x", "-", "a", "-">>

----------------------------------------------------------------------------
(* Properties of isIgnored (specification SpecIgnore) *)

\* a wildcard pattern read as the claim reads it: "**" is any sequence of
\* characters, "*" any sequence without "/", any other character itself
RECURSIVE GlobTokens(_)
GlobTokens(pattern) ==
    IF pattern = << >> THEN << >>
    ELSE IF StartsWith(pattern, <<"*", "*">>)
         THEN <<[atom |-> [kind |-> "any", c |-> ""], star |-> TRUE]>>
              \o GlobTokens(SubSeq(pattern, 3, Len(pattern)))
         ELSE IF Head(pattern) = "*"
              THEN <<[atom |-> [kind |-> "notslash", c |-> ""], star |-> TRUE]>>
                   \o GlobTokens(Tail(pattern))
              ELSE <<[atom |-> [kind |-> "char", c |-> Head(pattern)],
                      star |-> FALSE]>>
                   \o GlobTokens(Tail(pattern))

\* the pattern matches the path, or a directory the path lies in
GlobIgnores(pattern, path) ==
    \/ MatchWhole(GlobTokens(pattern), path)
    \/ MatchWhole(GlobTokens(pattern)
                      \o <<[atom |-> [kind |-> "char", c |-> "/"], star |-> FALSE],
                           [atom |-> [kind |-> "any", c |-> ""], star |-> TRUE]>>,
                  path)

\* C18: a path is ignored whenever one of the patterns holds a wildcard
\* and matches it with "*" standing for characters of one path segment
\* and "**" for any characters, "/" included; so "**/test" ignores
\* "src/utils/test/file.js".
C18_WildcardMatching ==
    fpc = "ignore_done" =>
        \A k \in 1..Len(args.patterns) :
            LET pattern == args.patterns[k]
            IN  (/\ Includes(pattern, <<"*">>)
                 /\ ~StartsWith(pattern, <<"!">>)
                 /\ GlobIgnores(pattern, args.relativePath)) => result = TRUE

\* the example of the claim
C18_DocExample ==
    (/\ fpc = "ignore_done"
     /\ args.patterns = <<<<"*", "*", "/", "t", "e", "s", "t">>>>
     /\ args.relativePath = <<"s", "r", "c", "/", "u", "t", "i", "l", "s", "/", "t", "e", "s", "t", "/", "f", "i", "l", "e", ".", "j", "s">>) =>
        result = TRUE

----------------------------------------------------------------------------
(* Order and termination of uploadChunks (specifications Spec, SpecLive) *)

FailuresOf(b) == Len(SelectSeq(sends, LAMBDA s : s.start = b /\ ~s.ok))

\* the batch starting at b is over: uploaded, or failed maxRetries + 1
\* times, and each failure that a retry followed had its backoff delay
Finished(b) ==
    /\ Uploaded(b) \/ FailuresOf(b) = maxRetries + 1
    /\ Len(DelaysOf(b)) = Min(FailuresOf(b), maxRetries)

\* C19: at most one createChunks call is in flight; the calls are made in
\* the order of the batches; and while a batch is being sent every batch
\* before it is over: it succeeded, or it failed maxRetries + 1 times with
\* all its backoff delays elapsed.
C19_Sequential ==
    /\ inFlight \in { 0, 1 }
    /\ inFlight = 1 <=> pc = "await_send"
    /\ \A j, k \in 1..Len(sends) : j < k => sends[j].start <= sends[k].start
    /\ \A b \in BatchStarts : b < i => Finished(b)
    /\ \A k \in 1..Len(sends) : sends[k].start <= i

\* the second batch is in flight after the first one failed twice, with
\* one delay between the two attempts (maxRetries = 1)
C19_Witness ==
    /\ pc = "await_send" /\ inFlight = 1
    /\ maxRetries = 1
    /\ i = batchSize /\ i < Len(chunks)
    /\ FailuresOf(0) = 2 /\ ~Uploaded(0)
    /\ Len(DelaysOf(0)) = 1

\* C20: uploadChunks completes, whatever the record list, the batch size
\* (>= 1), maxRetries (>= 0) and the outcomes of the sends, as long as
\* every send and every backoff delay returns.
C20_UploadTerminates == <>(pc = "done")

\* a completed upload of three records in batches of one, in which every
\* send failed and every possible delay was taken
C20_Witness ==
    /\ pc = "done"
    /\ Len(chunks) = 3 /\ batchSize = 1 /\ maxRetries = 5
    /\ Len(sends) = 18 /\ \A k \in 1..Len(sends) : ~sends[k].ok
    /\ Len(delays) = 15


----------------------------------------------------------------------------
(* Properties of extractMarkdownPaths (specification SpecPaths) *)

\* the paths the walk is to return when a directory that cannot be read
\* counts as an empty one
RECURSIVE ExpectedPaths(_, _, _)
ExpectedPaths(folder, prefix, patterns) ==
    IF ~folder.readable THEN << >>
    ELSE Concat([k \in 1..Len(folder.entries) |->
            LET e    == folder.entries[k]
                full == JoinPath(prefix, e.name)
            IN  IF e.name = NodeModules \/ isIgnored(full, patterns) THEN << >>
                ELSE IF e.kind = "dir" THEN ExpectedPaths(e, full, patterns)
                ELSE IF IsMarkdownName(e.name) THEN <<full>>
                ELSE << >>])

PatternsInForce ==
    IF args.respectGitignore THEN parseGitignore(args.gitignore) ELSE << >>

\* C21: a directory that cannot be read is not fatal to extractMarkdownPaths:
\* no error leaves the call, the directory contributes no path, and the
\* files of every other directory are returned, in the order of the walk.
C21_DirReadFailureNotFatal ==
    fpc = "paths_done" =>
        /\ ~result.threw
        /\ result.paths = ExpectedPaths(args.root, << >>, PatternsInForce)

\* an unreadable directory is met before a sibling directory and a sibling
\* file, both of which are returned
C21_Witness ==
    /\ fpc = "paths_done"
    /\ args.root.readable
    /\ Len(args.root.entries) = 3
    /\ args.root.entries[1].name = <<"u">>
    /\ ~args.root.entries[1].readable
    /\ args.root.entries[2].name = <<"s">>
    /\ args.root.entries[3].name = <<"a", ".", "m", "d">>
    /\ result.paths = << <<"s", "/", "d", ".", "m", "d">>,
                         <<"a", ".", "m", "d">> >>

----------------------------------------------------------------------------
(* Properties of extractChunksFromOpenAPI (specification SpecExtract) *)

\* the (path, key) pairs of a specification whose key names one of the
\* seven methods and holds an operation, in document order
OperationPairs(spec) ==
    IF ~spec.fetchOk \/ ~IsDefined(spec.paths) THEN << >>
    ELSE LET paths == ValueOf(spec.paths)
         IN  Concat([p \in 1..Len(paths) |->
                 LET ops  == paths[p].ops
                     keep == SelectSeq(ops,
                                 LAMBDA op : /\ ToLowerCase(op.key) \in HttpMethods
                                             /\ op.present)
                 IN  [k \in 1..Len(keep) |->
                         [path |-> paths[p].path, op |-> keep[k]]]])

\* no operation of the specification makes the processing throw
ProcessesCleanly(spec) ==
    /\ spec.fetchOk
    /\ \A k \in 1..Len(OperationPairs(spec)) :
           ~OperationPairs(spec)[k].op.tagsIsString

\* C24: a specification that is processed without error yields exactly one
\* record per (path, method key) pair that holds an operation, in document
\* order, and none for any other key; the record's tracking id is the
\* declared operation id, or else generateTrackingId(method, path), and its
\* group tracking ids are the raw path alone.
C24_OneRecordPerOperation ==
    (epc = "openapi_done" /\ ProcessesCleanly(apiSpec)) =>
        LET pairs == OperationPairs(apiSpec)
        IN  /\ Len(outChunks) = Len(pairs)
            /\ \A k \in 1..Len(pairs) :
                   /\ outChunks[k].path = pairs[k].path
                   /\ outChunks[k].method = pairs[k].op.key
                   /\ outChunks[k].tracking_id =
                          (IF IsDefined(pairs[k].op.operationId)
                           THEN ValueOf(pairs[k].op.operationId)
                           ELSE generateTrackingId(
                                    <<pairs[k].op.key, pairs[k].path>>))
                   /\ outChunks[k].group_tracking_ids = <<pairs[k].path>>

\* two paths: one with a parameters key and a get with a declared id, one
\* with an upper-case GET without id; two records come out
C24_Witness ==
    /\ epc = "openapi_done"
    /\ IsDefined(apiSpec.paths)
    /\ Len(ValueOf(apiSpec.paths)) = 2
    /\ Len(ValueOf(apiSpec.paths)[1].ops) = 2
    /\ ValueOf(apiSpec.paths)[1].ops[1].key = KeyParams
    /\ ValueOf(apiSpec.paths)[1].ops[2].key = KeyGet
    /\ ValueOf(apiSpec.paths)[1].ops[2].operationId = Some(<<"o", "p">>)
    /\ Len(ValueOf(apiSpec.paths)[2].ops) = 1
    /\ ValueOf(apiSpec.paths)[2].ops[1].key = KeyGetUp
    /\ Len(outChunks) = 2
    /\ outChunks[1].tracking_id = <<"o", "p">>
    /\ outChunks[2].tracking_id =
           generateTrackingId(<<KeyGetUp, ValueOf(apiSpec.paths)[2].path>>)
    /\ outChunks[2].group_tracking_ids = <<ValueOf(apiSpec.paths)[2].path>>

----------------------------------------------------------------------------
(* Properties of main's extraction phases (specification SpecMain) *)

\* the file as main hands it to extractChunksFromMarkdown
FileArg(k) == MarkdownArgs(world.files[k], Opts(options))

\* the markdown phase is over
MarkdownDone == ConfigValid /\ dpc # "idle"

\* the records of the markdown phase when the files for which Offending
\* holds give none and every other file gives its own
MarkdownPartWithout(Offending(_)) ==
    IF ~world.dirReadable THEN << >>
    ELSE Concat([k \in 1..Len(world.files) |->
                    IF Offending(FileArg(k)) THEN << >>
                    ELSE MarkdownChunks(FileArg(k))])

\* the file cannot be read, its processing throws, or it holds component
\* syntax
FileFails(d) == d.file \in { "unreadable", "nullfm", "vue" }

RECURSIVE CleanPrefix(_)
CleanPrefix(pairs) ==
    IF pairs = << >> \/ Head(pairs).op.tagsIsString THEN << >>
    ELSE <<Head(pairs)>> \o CleanPrefix(Tail(pairs))

OpenAPIFails ==
    /\ Truthy(options.openapiSpec)
    /\ ~ProcessesCleanly(OpenAPIArgs(world, Opts(options)))

\* C23: a failure of the OpenAPI extraction is not fatal: the records built
\* before the failure (possibly none) are what the phase contributes, main
\* does not exit on it, goes on with the markdown phase, the
\* de-duplication and the upload, and exits with code 0.
C23_OpenAPIFailureNotFatal ==
    (ConfigValid /\ OpenAPIFails) =>
        LET built == CleanPrefix(OperationPairs(OpenAPIArgs(world, Opts(options))))
        IN  /\ mpc = "markdown" =>
                /\ exitCode = Undefined
                /\ Len(allChunks) = Len(built)
                /\ \A k \in 1..Len(built) :
                       /\ allChunks[k].path = built[k].path
                       /\ allChunks[k].method = built[k].op.key
            /\ MarkdownDone =>
                /\ Len(allChunks) = Len(built)
                      + Len(MarkdownPhase(extractMarkdownPaths(world),
                                          Opts(options)))
                /\ \A k \in 1..Len(built) :
                       allChunks[k].path = built[k].path
            /\ mpc = "exited" => exitCode = Some(0)

\* the processing throws at the second operation: the first operation's
\* record and the record of the markdown file are uploaded, exit code 0
C23_Witness ==
    /\ mpc = "exited" /\ ConfigValid
    /\ world.api = ApiBroken
    /\ world.files = <<DocA>>
    /\ exitCode = Some(0)
    /\ Len(allChunks) = 2
    /\ allChunks[1].tracking_id = <<"o", "p">>
    /\ pc = "done"
    /\ \E k \in 1..Len(sends) :
           sends[k].ok /\ \E j \in 1..Len(sends[k].batch) :
                              sends[k].batch[j].tracking_id = <<"o", "p">>

----------------------------------------------------------------------------
(* Properties of main's URL validation and upload (specification SpecMain) *)

\* what follows the scheme separator of a URL
RestAfterScheme(url) ==
    LET first == IndexOf(url, <<":", "/", "/">>, 1)
    IN  IF first = 0 THEN url ELSE SubSeq(url, first + 3, Len(url))

\* well-formed, no double slash after the scheme, no white space
CleanUrl(url) ==
    /\ IsValidUrl(url)
    /\ ~Includes(RestAfterScheme(url), <<"/", "/">>)
    /\ \A k \in 1..Len(url) : ~IsSpace(url[k])

\* s is t without some of its elements, the others in their order
RECURSIVE IsSubsequence(_, _)
IsSubsequence(s, t) ==
    IF s = << >> THEN TRUE
    ELSE IF t = << >> THEN FALSE
    ELSE IF Head(s) = Head(t) THEN IsSubsequence(Tail(s), Tail(t))
    ELSE IsSubsequence(s, Tail(t))

\* C25: the URL validation drops the records whose source URL is malformed,
\* holds a double slash after the scheme or holds white space, and keeps
\* the others in their order; so every record of every batch sent has no
\* source URL or a well-formed one without double slash after the scheme
\* and without white space.
C25_UploadedUrlsClean ==
    /\ mpc \in { "validated", "uploading" } =>
           /\ IsSubsequence(validChunks, uniqueChunks)
           /\ \A k \in 1..Len(uniqueChunks) :
                  LET url == uniqueChunks[k].source_url
                  IN  (\E j \in 1..Len(validChunks) :
                           validChunks[j] = uniqueChunks[k])
                      <=> (url = << >> \/ CleanUrl(url))
    /\ \A k \in 1..Len(sends) : \A j \in 1..Len(sends[k].batch) :
           LET url == sends[k].batch[j].source_url
           IN  url = << >> \/ CleanUrl(url)

\* C26: uploadChunks terminates for every integer batch size that
\* --batch-size can yield, 0 and the negative ones included: each pass of
\* the batch loop moves the index forward.
C26_IndexAdvances ==
    [][(pc = "while" /\ pc' = "for") => i' > i]_vars

\* a record built by extractChunksFromMarkdown
IsMarkdownRecord(c) == "heading" \in DOMAIN c

\* C27: whatever the root URL setting (none, one without and one with a
\* trailing slash), every record extractChunksFromMarkdown emitted passes
\* the URL validation of main and is part of a batch sent.
C27_MarkdownRecordsUploaded ==
    /\ mpc \in { "validated", "uploading" } =>
           \A k \in 1..Len(uniqueChunks) :
               IsMarkdownRecord(uniqueChunks[k]) =>
                   \E j \in 1..Len(validChunks) :
                       validChunks[j] = uniqueChunks[k]
    /\ (mpc = "uploading" /\ pc = "done") =>
           \A k \in 1..Len(uniqueChunks) :
               IsMarkdownRecord(uniqueChunks[k]) =>
                   \E s \in 1..Len(sends) : \E j \in 1..Len(sends[s].batch) :
                       sends[s].batch[j] = uniqueChunks[k]

----------------------------------------------------------------------------
(* At-most-once upload (specification Spec) *)

\* the sends that succeeded and whose batch holds the record c
OkSendsWith(c) ==
    { k \in 1..Len(sends) :
        sends[k].ok /\ \E j \in 1..Len(sends[k].batch) : sends[k].batch[j] = c }

\* C28: in one run of uploadChunks every record is part of at most one
\* successful send: a batch whose send has succeeded is not sent again, and
\* no record of a skipped batch is part of a successful send.
C28_AtMostOnce ==
    /\ \A c \in 1..Len(chunks) : Cardinality(OkSendsWith(chunks[c])) <= 1
    /\ \A k \in 1..Len(sends) :
           sends[k].ok =>
               \A j \in (k + 1)..Len(sends) : sends[j].start # sends[k].start
    /\ \A b \in BatchStarts :
           Skipped(b) =>
               \A c \in (b + 1)..Min(b + batchSize, Len(chunks)) :
                   OkSendsWith(chunks[c]) = {}

\* three records in batches of two: the first batch is skipped after two
\* failed sends, the second is uploaded at its second send; the upload is
\* complete
C28_Witness ==
    /\ pc = "done"
    /\ Len(chunks) = 3 /\ batchSize = 2 /\ maxRetries = 1
    /\ Skipped(0)
    /\ Len(SendsOf(2)) = 2
    /\ Uploaded(2)
    /\ OkSendsWith(3) = { 4 }

----------------------------------------------------------------------------
(* Upsert (specification SpecMain) *)

\* C29: when --no-upsert is given, no request sent asks for a refresh on
\* duplicate: neither the request's flag nor a record of its batch has
\* refresh_on_duplicate = true.
C29_NoUpsertNoRefresh ==
    (options # << >> /\ Opts(options).upsert = FALSE) =>
        \A k \in 1..Len(sends) :
            /\ sends[k].refresh_on_duplicate = FALSE
            /\ \A j \in 1..Len(sends[k].batch) :
                   sends[k].batch[j].refresh_on_duplicate = FALSE

----------------------------------------------------------------------------
(* Properties of parseFrontmatter (specification SpecFrontmatter) *)

\* C30: a document that does not open with a frontmatter block gives empty
\* metadata and itself as body, also when it holds "---" twice or more
\* (horizontal rules, the separator row of a table): none of its text is
\* lost or read as metadata.
C30_NoFrontmatterWholeBody ==
    (fpc = "frontmatter_done" /\ ~StartsWith(args.fileContent, Fence)) =>
        /\ result.frontmatter = EmptyFrontmatter
        /\ result.content = args.fileContent
=============================================================================
